---- MODULE Spec2Model ----
(***************************************************************************)
(* Verification model of the vocabgen puzzle engines.                      *)
(*                                                                         *)
(*   Spec    the Deductive Chain Assembler, DGAGenerator.generate          *)
(*           (src/utils/dgaGenerator.ts:21-498)                            *)
(*   SpecCW  the crossword placement engine, CrosswordGenerator.generate   *)
(*           (src/utils/dgaGenerator.ts:502-715)                           *)
(*   SpecTT  the Tic-Tac-Word board assembler, TicTacGenerator.generate    *)
(*           (src/utils/tictacGenerator.ts)                                *)
(*   SpecApp the result store of the App: the objects the generators       *)
(*           return and the copies the App keeps (src/App.tsx)             *)
(*                                                                         *)
(* A string is a sequence of one-character strings, so that characters     *)
(* can be indexed, upper-cased, trimmed and compared as the code does.     *)
(* Math.random() is nondeterminism: every index a draw can yield is a      *)
(* possible choice; a shuffle is Fisher-Yates over its draws.              *)
(***************************************************************************)
EXTENDS Integers, Sequences, FiniteSets, TLC

\* ------------------------------------------------------------------ bounds

\* Longest input list handed to DGAGenerator.generate.
MaxWords == 7

\* Randomised attempts of the generator loop that are explored. The source
\* runs 500 of them (MAX_ATTEMPTS); the attempts are independent and keep no
\* state but the counter, so a failed attempt only advances the counter.
MaxAttempts == 1

\* Draws of the shuffles of one attempt (of the random sort of the subset step)
\* that move an element: Fisher-Yates draws j # i.
MaxSwaps == 1

\* Most words handed to CrosswordGenerator.generate.
MaxInputs == 4

\* Draws of one call of TicTacGenerator.generate that move an element: the
\* exchanges of equal-weight candidates by the random summand of the weighted
\* sort, and the Fisher-Yates draws j # i of the shuffles of the options and
\* of the cells.
MaxMoves == 1

\* Longest side of a crossword grid among the results the App stores.
MaxSide == 2

\* Most entries of a list of a result the App stores: placed words, unused
\* words aside, clues, boards, cells of a board.
MaxEntries == 2

\* Results the App stores in one run: by Generate and by a change of tab.
MaxStores == 3

\* ------------------------------------------------------------- sequences

NULL == "null"

Min(a, b) == IF a < b THEN a ELSE b

Max(a, b) == IF a > b THEN a ELSE b

SeqToSet(s) == {s[i] : i \in 1..Len(s)}

Contains(s, x) == \E i \in 1..Len(s) : s[i] = x

\* s without its elements that are in the set drop, order kept.
Without(s, drop) == SelectSeq(s, LAMBDA x : x \notin drop)

\* Array.prototype.slice(0, n) for n >= 0.
Take(s, n) == SubSeq(s, 1, Min(n, Len(s)))

\* Fault injection for C7: new Set(words) left out, duplicates kept.
DedupNone(s) == s

\* s with a later duplicate of an earlier element removed: the iteration
\* order of new Set(s).
RECURSIVE Dedup(_)
Dedup(s) ==
  IF s = <<>> THEN <<>>
  ELSE LET front == Dedup(SubSeq(s, 1, Len(s) - 1))
           last  == s[Len(s)]
       IN  IF Contains(front, last) THEN front ELSE Append(front, last)

RECURSIVE Flatten(_)
Flatten(ss) == IF ss = <<>> THEN <<>> ELSE Head(ss) \o Flatten(Tail(ss))

RECURSIVE SumSeq(_)
SumSeq(s) == IF s = <<>> THEN 0 ELSE Head(s) + SumSeq(Tail(s))

\* ---------------------------------------------------------------- strings

UpperLetters == <<"A", "B", "C", "D", "E", "P", "Q", "R">>

LowerLetters == <<"a", "b", "c", "d", "e", "p", "q", "r">>

\* UTF-16 order of the characters in use: the blank sorts before the letters,
\* the capitals before the small letters.
CharOrder == <<" ">> \o UpperLetters \o LowerLetters

CharCode(ch) == CHOOSE i \in 1..Len(CharOrder) : CharOrder[i] = ch

\* String.prototype.toUpperCase, character by character.
UpperChar(ch) ==
  IF \E i \in 1..Len(LowerLetters) : LowerLetters[i] = ch
  THEN UpperLetters[CHOOSE i \in 1..Len(LowerLetters) : LowerLetters[i] = ch]
  ELSE ch

toUpperCase(w) == [i \in 1..Len(w) |-> UpperChar(w[i])]

\* String.prototype.trim: leading and trailing blanks removed, inner ones kept.
RECURSIVE trim(_)
trim(w) ==
  IF w = <<>> THEN <<>>
  ELSE IF Head(w) = " " THEN trim(Tail(w))
  ELSE IF w[Len(w)] = " " THEN trim(SubSeq(w, 1, Len(w) - 1))
  ELSE w

\* a < b in the order of Array.prototype.sort() without a comparator.
RECURSIVE StrLess(_, _)
StrLess(a, b) ==
  IF b = <<>> THEN FALSE
  ELSE IF a = <<>> THEN TRUE
  ELSE IF Head(a) # Head(b) THEN CharCode(Head(a)) < CharCode(Head(b))
  ELSE StrLess(Tail(a), Tail(b))

\* Insertion of x into the ascending sequence s.
RECURSIVE InsertSorted(_, _)
InsertSorted(s, x) ==
  IF s = <<>> THEN <<x>>
  ELSE IF StrLess(x, Head(s)) THEN <<x>> \o s
  ELSE <<Head(s)>> \o InsertSorted(Tail(s), x)

\* Array.prototype.sort() on strings.
RECURSIVE sort(_)
sort(s) == IF s = <<>> THEN <<>> ELSE InsertSorted(sort(Tail(s)), Head(s))

\* ------------------------------------------------------------- randomness

\* The draws of one Fisher-Yates shuffle of n elements, as a sequence d with
\* d[i] the 0-based index j drawn at the 0-based step i (d[i] \in 0..i), for
\* i = 1..n-1; at most `budget` draws move an element (d[i] # i).
RECURSIVE DrawSeqs(_, _)
DrawSeqs(n, budget) ==
  IF n <= 1 THEN {<<>>}
  ELSE {Append(d, n - 1) : d \in DrawSeqs(n - 1, budget)}
       \cup (IF budget = 0 THEN {}
             ELSE {Append(d, j) : d \in DrawSeqs(n - 1, budget - 1), j \in 0..(n - 2)})

\* The draws of d that move an element.
Moves(d) == Cardinality({i \in 1..Len(d) : d[i] # i})

Swap(s, i, j) == [s EXCEPT ![i] = s[j], ![j] = s[i]]

\* for (i = n-1; i > 0; i--) swap copy[i], copy[draws[i]]   (0-based i)
RECURSIVE FisherYates(_, _, _)
FisherYates(copy, draws, i) ==
  IF i <= 0 THEN copy
  ELSE FisherYates(Swap(copy, i + 1, draws[i] + 1), draws, i - 1)

\* Fault injection for C21: the arrays shuffled whatever randomize says, the
\* fallback included.
shuffleAlways(arr, randomize, budget) ==
  {[arr  |-> FisherYates(arr, d, Len(arr) - 1), left |-> budget - Moves(d)] :
     d \in DrawSeqs(Len(arr), budget)}

\* shuffle(arr) when randomize, else the array itself: the orders it can
\* leave with at most `budget` moving draws, each with the budget left over.
shuffle(arr, randomize, budget) ==
  IF randomize
  THEN {[arr  |-> FisherYates(arr, d, Len(arr) - 1), left |-> budget - Moves(d)] :
          d \in DrawSeqs(Len(arr), budget)}
  ELSE {[arr |-> arr, left |-> budget]}

\* The elements chooseFrom(arr, randomize) can return: arr[0] when not
\* randomize, any element otherwise (undefined for the empty array).
chooseFrom(arr, randomize) ==
  IF arr = <<>> THEN {}
  ELSE IF randomize THEN SeqToSet(arr) ELSE {arr[1]}

\* ----------------------------------------------------------- DGA: inputs

\* Raw lines a caller may pass: words of 2 to 5 letters, with small letters,
\* padding blanks, a line that differs from another one only in case, and a
\* blank line.
Lexicon ==
  << <<"a", "q">>,
     <<"B", "P">>,
     <<"C", "E", "C">>,
     <<" ", "d", "r", " ">>,
     <<"C", "Q">>,
     <<"A", "P", "C", "D", "R">>,
     <<"C", "C">>,
     <<"A", "Q", "D", "R">>,
     <<"A", "Q">>,
     <<" ">> >>

\* The sub-lists of Lexicon with at most MaxWords lines, in Lexicon order.
WordLists ==
  {Without(Lexicon, {Lexicon[i] : i \in (1..Len(Lexicon)) \ keep}) :
     keep \in {k \in SUBSET (1..Len(Lexicon)) : Cardinality(k) <= MaxWords}}

DEFAULT_LIMIT == 10

Limits == {4, 6, DEFAULT_LIMIT}

MIN_WORDS == 6

\* ------------------------------------------------------ DGA: constraints

types == <<"START_1", "START_2", "START_3", "END_1", "END_2", "END_3">>

\* The 1-based distance of the revealed letter from its end of the word.
TypePos(type) ==
  CASE type \in {"START_1", "END_1"} -> 1
    [] type \in {"START_2", "END_2"} -> 2
    [] type \in {"START_3", "END_3"} -> 3

TypeFromStart(type) == type \in {"START_1", "START_2", "START_3"}

\* word[k-1] for START_k, word[len-k] for END_k, null when len < k.
getChar(word, type) ==
  IF Len(word) < TypePos(type) THEN NULL
  ELSE IF TypeFromStart(type) THEN word[TypePos(type)]
  ELSE word[Len(word) - TypePos(type) + 1]

passesLengthRequirement(type, length) ==
  CASE type \in {"START_3", "END_3"} -> length >= 5
    [] type \in {"START_2", "END_2"} -> length >= 4
    [] OTHER -> TRUE

\* buildIndeterminate(gap).slotCount
buildIndeterminate(gap) == IF gap >= 2 THEN 12 ELSE IF gap = 1 THEN 1 ELSE 0

\* The fields of getVisual(word, type) a clue carries, but for the display text.
getVisual(word, type) ==
  [anchorChar         |-> getChar(word, type),
   shortLeadingSlots  |-> IF TypeFromStart(type) THEN TypePos(type) - 1 ELSE 0,
   shortTrailingSlots |-> IF TypeFromStart(type) THEN 0 ELSE TypePos(type) - 1,
   infiniteSide       |-> IF TypeFromStart(type) THEN "trailing" ELSE "leading",
   infiniteSlotCount  |-> buildIndeterminate(Max(0, Len(word) - TypePos(type)))]

\* matches(constraint, candidateWord)
matches(constraint, candidateWord) ==
  getChar(candidateWord, constraint.type) = constraint.char

\* Fault injection for C23: the score counting the other words only.
overlapScoreOfOthers(type, char, pool) ==
  Cardinality({i \in 1..Len(pool) : getChar(pool[i], type) = char}) - 1

\* The overlap score of (type, char): the words of the pool with that letter there.
overlapScore(type, char, pool) ==
  Cardinality({i \in 1..Len(pool) : getChar(pool[i], type) = char})

\* The constraint of `word` for `type` over the pool.
Constraint(word, type, pool) ==
  [type         |-> type,
   char         |-> getChar(word, type),
   visual       |-> getVisual(word, type),
   targetWord   |-> word,
   overlapScore |-> overlapScore(type, getChar(word, type), pool)]

\* The types that give `word` a constraint, in the order of `types`.
ValidTypes(word) ==
  SelectSeq(types, LAMBDA t : getChar(word, t) # NULL
                              /\ passesLengthRequirement(t, Len(word)))

\* constraintsByWord.get(word): its constraints with score >= 2, with score 1, all.
WordBuckets(word, pool) ==
  LET vt  == ValidTypes(word)
      all == [i \in 1..Len(vt) |-> Constraint(word, vt[i], pool)]
  IN  [ambiguous |-> SelectSeq(all, LAMBDA c : c.overlapScore >= 2),
       unique    |-> SelectSeq(all, LAMBDA c : c.overlapScore = 1),
       all       |-> all]

BuildConstraintsByWord(pool) == [w \in SeqToSet(pool) |-> WordBuckets(w, pool)]

BucketKey(c) == <<c.type, c.char>>

\* The keys of ambiguousBuckets in insertion order.
BucketKeys(pool, cbw) ==
  Dedup(Flatten([i \in 1..Len(pool) |->
                   [k \in 1..Len(cbw[pool[i]].ambiguous) |->
                      BucketKey(cbw[pool[i]].ambiguous[k])]]))

\* bucketWordMembers.get(key): the target words of the bucket, in insertion order.
BucketMembers(key, pool, cbw) ==
  SelectSeq(pool, LAMBDA w : \E k \in 1..Len(cbw[w].ambiguous) :
                               BucketKey(cbw[w].ambiguous[k]) = key)

\* bucketWordMembers as a sequence of [key, members], in insertion order.
BuildBucketWordMembers(pool, cbw) ==
  LET keys == BucketKeys(pool, cbw)
  IN  [i \in 1..Len(keys) |-> [key |-> keys[i], members |-> BucketMembers(keys[i], pool, cbw)]]

\* The members of the bucket of constraint c (the empty set when it has none).
MembersOf(c, bwm) ==
  IF \E i \in 1..Len(bwm) : bwm[i].key = BucketKey(c)
  THEN SeqToSet(bwm[CHOOSE i \in 1..Len(bwm) : bwm[i].key = BucketKey(c)].members)
  ELSE {}

\* The pairs (first, second) the two loops over one bucket visit, in order.
PairsOf(members) ==
  Flatten([i \in 1..Len(members) |->
             [d \in 1..(Len(members) - i) |-> <<members[i], members[i + d]>>]])

AddOnce(s, x) == IF Contains(s, x) THEN s ELSE Append(s, x)

\* adjacency after the pairs are added: word -> neighbours in insertion order.
RECURSIVE AddPairs(_, _)
AddPairs(adj, pairs) ==
  IF pairs = <<>> THEN adj
  ELSE LET first  == Head(pairs)[1]
           second == Head(pairs)[2]
           a1     == [adj EXCEPT ![first] = AddOnce(@, second)]
           a2     == [a1 EXCEPT ![second] = AddOnce(@, first)]
       IN  AddPairs(a2, Tail(pairs))

BuildAdjacency(pool, bwm) ==
  AddPairs([w \in SeqToSet(pool) |-> <<>>],
           Flatten([i \in 1..Len(bwm) |-> PairsOf(bwm[i].members)]))

\* The while loop over the stack: pop, skip a visited word, else visit it and
\* push its unvisited neighbours. Returns [component, visited].
RECURSIVE Walk(_, _, _, _)
Walk(stack, visited, component, adj) ==
  IF stack = <<>> THEN [component |-> component, visited |-> visited]
  ELSE LET current == stack[Len(stack)]
           rest    == SubSeq(stack, 1, Len(stack) - 1)
       IN  IF current \in visited THEN Walk(rest, visited, component, adj)
           ELSE LET v2 == visited \cup {current}
                IN  Walk(rest \o Without(adj[current], v2), v2,
                         Append(component, current), adj)

\* components: one walk from every word not yet visited, in pool order.
RECURSIVE Components(_, _, _)
Components(todo, visited, adj) ==
  IF todo = <<>> THEN <<>>
  ELSE IF Head(todo) \in visited THEN Components(Tail(todo), visited, adj)
  ELSE LET w == Walk(<<Head(todo)>>, visited, <<>>, adj)
       IN  <<w.component>> \o Components(Tail(todo), w.visited, adj)

BuildAmbiguousComponents(pool, cbw, bwm) ==
  SelectSeq(Components(pool, {}, BuildAdjacency(pool, bwm)),
            LAMBDA comp : Len(comp) > 1
                          /\ \E i \in 1..Len(comp) : Len(cbw[comp[i]].ambiguous) > 0)

totalAmbiguousPotential(comps) ==
  SumSeq([i \in 1..Len(comps) |-> Max(0, Len(comps[i]) - 1)])

QUOTA == 3

TARGET_AMBIGUOUS_COUNT(comps) == Min(QUOTA, totalAmbiguousPotential(comps))


\* ------------------------------------------------ DGA: state of generate

VARIABLES
  wordList,             \* the argument wordList
  limit,                \* the argument limit
  pc,                   \* where generate stands
  uniqueWords,          \* uniqueWords
  constraintsByWord,    \* constraintsByWord
  bucketWordMembers,    \* bucketWordMembers
  ambiguousComponents,  \* ambiguousComponents
  attempt,              \* the counter of the generator loop
  required,             \* the counter of the fallback loop
  randomize,            \* TRUE in the generator loop, FALSE in the fallback
  forcedSet,            \* forcedSet of the last attemptBuild, as a set
  minimumRequired,      \* minimumRequired of the last attemptBuild
  result                \* the DGAResult returned

dgaVars ==
  <<wordList, limit, pc, uniqueWords, constraintsByWord, bucketWordMembers,
    ambiguousComponents, attempt, required, randomize, forcedSet, minimumRequired,
    result>>

\* The state of CrosswordGenerator.generate.

VARIABLES
  inputs,        \* the argument inputs
  gridSize,      \* this.gridSize
  cwPc,          \* where generate stands
  grid,          \* this.grid
  sortedInputs,  \* sortedInputs
  placedWords,   \* placedWords
  unusedWords,   \* unusedWords
  wordIndex,     \* the index i of the loop over sortedInputs (1-based)
  generated,     \* the GenerationResult returned
  drawn,         \* the randIndex drawn in this call (1-based; 0: none drawn)
  earlier        \* the draw and the result of the call before this one

cwVars ==
  <<inputs, gridSize, cwPc, grid, sortedInputs, placedWords, unusedWords, wordIndex,
    generated, drawn, earlier>>

\* The state of one call of TicTacGenerator.generate: its arguments, the
\* words after processInput, the index of the board being assembled, the
\* attempt of its loop, the boards built so far, for each of them how it was
\* selected, the moving draws still to be explored, and the returned result.
VARIABLES
  ttWordList,
  ttClueList,
  difficulty,
  ttPc,
  processed,
  gridId,
  gridAttempt,
  grids,
  picked,
  movesLeft,
  ticTac

ttVars ==
  <<ttWordList, ttClueList, difficulty, ttPc, processed, gridId, gridAttempt,
    grids, picked, movesLeft, ticTac>>

\* The App: the objects allocated so far (an object is its type and its
\* named references to other objects; primitive fields are left out), the
\* active tab, for each tab the object last handed to the store (0: none) and
\* the object in the state of the App (0: null), and the number of stores.
VARIABLES
  heap,
  activeTab,
  handed,
  stored,
  stores,
  showSolution,    \* the solution overlay is on
  mode,            \* the crossword mode
  containerWidth   \* the width the canvas container has, as the renderer reads it

appVars == <<heap, activeTab, handed, stored, stores, showSolution, mode, containerWidth>>

\* What the handlers that touch the results leave alone.
viewVars == <<showSolution, mode, containerWidth>>

\* What the actions of one engine leave alone: the state of the other engines
\* and of the App.
dgaFrame == <<cwVars, ttVars, appVars>>

cwFrame == <<dgaVars, ttVars, appVars>>

ttFrame == <<dgaVars, cwVars, appVars>>

appFrame == <<dgaVars, cwVars, ttVars>>

\* No result yet.
NoTicTac == [grids |-> <<>>, success |-> FALSE, difficulty |-> ""]


NoGeneration == [grid |-> <<>>, placedWords |-> <<>>, unusedWords |-> <<>>, gridSize |-> 0]

\* No call before this one.
NoCall == [drawn |-> 0, generated |-> NoGeneration]

NoResult == [clues |-> <<>>, wordBank |-> <<>>, success |-> FALSE, message |-> "pending"]

TooFewMessage == "Please provide at least 6 words."

NoPathMessage ==
  "Could not generate a deductive path for the selected subset. Try regenerating to pick a different set of words."

\* wordList.map(w => w.toUpperCase().trim()).filter(w => w.length > 0)
Sanitized(list) ==
  SelectSeq([i \in 1..Len(list) |-> trim(toUpperCase(list[i]))], LAMBDA w : Len(w) > 0)

\* The orders uniqueWords.sort(() => Math.random() - 0.5) can leave: a
\* comparator that answers at random leaves the array in some permutation.
randomSort(arr) == {o.arr : o \in shuffle(arr, TRUE, MaxSwaps)}

\* Fault injection for C8: the slice(0, limit) left out of the subset step.
SubsetOutcomesUncut(unique, lim) ==
  IF Len(unique) > lim THEN randomSort(unique) ELSE {unique}

\* uniqueWords after the subset step.
SubsetOutcomes(unique, lim) ==
  IF Len(unique) > lim THEN {Take(o, lim) : o \in randomSort(unique)} ELSE {unique}

\* ------------------------------------------ DGA: computeForcedAmbiguousSet

\* The candidate lists the loop over ambiguousComponents can build: of every
\* component the (shuffled) words but the last, the anchor, (shuffled again).
RECURSIVE CandidateLists(_, _, _, _)
CandidateLists(comps, index, rnd, budget) ==
  IF index > Len(comps) THEN {[arr |-> <<>>, left |-> budget]}
  ELSE IF Len(comps[index]) <= 1 THEN CandidateLists(comps, index + 1, rnd, budget)
  ELSE UNION {
         UNION {
           {[arr  |-> [i \in 1..Len(candidateWords.arr) |->
                        [word |-> candidateWords.arr[i], componentIndex |-> index]]
                      \o rest.arr,
             left |-> rest.left] :
              rest \in CandidateLists(comps, index + 1, rnd, candidateWords.left)} :
           candidateWords \in shuffle(SubSeq(wordsCopy.arr, 1, Len(wordsCopy.arr) - 1),
                                      rnd, wordsCopy.left)} :
         wordsCopy \in shuffle(comps[index], rnd, budget)}

\* Fault injection for C4: the loop over orderedCandidates without its break
\* at desiredCount.
RECURSIVE TakeForcedNoStop(_, _, _, _, _)
TakeForcedNoStop(entries, forced, usage, desiredCount, comps) ==
  IF entries = <<>> THEN forced
  ELSE LET entry == Head(entries)
           lim   == Len(comps[entry.componentIndex]) - 1
       IN  IF lim <= 0 \/ usage[entry.componentIndex] >= lim
           THEN TakeForcedNoStop(Tail(entries), forced, usage, desiredCount, comps)
           ELSE TakeForcedNoStop(Tail(entries), AddOnce(forced, entry.word),
                                 [usage EXCEPT ![entry.componentIndex] = @ + 1],
                                 desiredCount, comps)

\* The loop over orderedCandidates: stop at desiredCount, skip an entry whose
\* component has used its limit of length - 1.
RECURSIVE TakeForced(_, _, _, _, _)
TakeForced(entries, forced, usage, desiredCount, comps) ==
  IF entries = <<>> \/ Len(forced) >= desiredCount THEN forced
  ELSE LET entry == Head(entries)
           lim   == Len(comps[entry.componentIndex]) - 1
       IN  IF lim <= 0 \/ usage[entry.componentIndex] >= lim
           THEN TakeForced(Tail(entries), forced, usage, desiredCount, comps)
           ELSE TakeForced(Tail(entries), AddOnce(forced, entry.word),
                           [usage EXCEPT ![entry.componentIndex] = @ + 1],
                           desiredCount, comps)

\* The forced sets computeForcedAmbiguousSet(desiredCount, randomize) can
\* return, each in its insertion order.
computeForcedAmbiguousSet(desiredCount, rnd, comps, budget) ==
  IF desiredCount <= 0 THEN {[arr |-> <<>>, left |-> budget]}
  ELSE UNION {
         {[arr  |-> TakeForced(orderedCandidates.arr, <<>>, [i \in 1..Len(comps) |-> 0],
                               desiredCount, comps),
           left |-> orderedCandidates.left] :
            orderedCandidates \in shuffle(candidates.arr, rnd, candidates.left)} :
         candidates \in CandidateLists(comps, 1, rnd, budget)}

\* ------------------------------------------------------- DGA: attemptBuild

\* The ambiguous constraints of `word` whose bucket has another member that
\* is not forced.
Preferred(word, forced, cbw, bwm) ==
  SelectSeq(cbw[word].ambiguous,
            LAMBDA c : \E member \in MembersOf(c, bwm) :
                         member # word /\ member \notin forced)

\* The array pickAmbiguousFor(word) chooses from (empty: it returns false).
ForcedOptions(word, forced, cbw, bwm) ==
  IF Preferred(word, forced, cbw, bwm) # <<>> THEN Preferred(word, forced, cbw, bwm)
  ELSE cbw[word].ambiguous

\* Fault injection for C6: the second loop trying the ambiguous constraints
\* before the unique ones.
FreeOptionsAmbiguousFirst(word, forced, cbw, bwm) ==
  IF Preferred(word, forced, cbw, bwm) # <<>> THEN Preferred(word, forced, cbw, bwm)
  ELSE IF cbw[word].ambiguous # <<>> THEN cbw[word].ambiguous
  ELSE IF cbw[word].unique # <<>> THEN cbw[word].unique
  ELSE cbw[word].all

\* The array the second loop chooses from for a word not selected yet.
FreeOptions(word, forced, cbw, bwm) ==
  IF cbw[word].unique # <<>> THEN cbw[word].unique
  ELSE IF Preferred(word, forced, cbw, bwm) # <<>> THEN Preferred(word, forced, cbw, bwm)
  ELSE IF cbw[word].ambiguous # <<>> THEN cbw[word].ambiguous
  ELSE cbw[word].all

Options(word, forced, cbw, bwm) ==
  IF word \in forced THEN ForcedOptions(word, forced, cbw, bwm)
  ELSE FreeOptions(word, forced, cbw, bwm)

\* The selections (in insertion order) the two loops can make over `order`.
RECURSIVE Selections(_, _, _, _, _)
Selections(order, forced, rnd, cbw, bwm) ==
  IF order = <<>> THEN {<<>>}
  ELSE {<<c>> \o rest :
          c \in chooseFrom(Options(Head(order), forced, cbw, bwm), rnd),
          rest \in Selections(Tail(order), forced, rnd, cbw, bwm)}

\* Fault injection for C1: a step accepted when matches.length >= 1.
RECURSIVE FirstStepAny(_, _, _)
FirstStepAny(constraints, words, i) ==
  IF i > Len(constraints) THEN 0
  ELSE IF Cardinality({k \in 1..Len(words) : matches(constraints[i], words[k])}) >= 1
  THEN i
  ELSE FirstStepAny(constraints, words, i + 1)

\* Fault injection for C29: the for loop left after its first constraint,
\* whether or not it gave a deduction.
FirstStepHeadOnly(constraints, words, i) ==
  IF i > Len(constraints) THEN 0
  ELSE IF Cardinality({k \in 1..Len(words) : matches(constraints[i], words[k])}) = 1
  THEN i
  ELSE 0

\* The first constraint (1-based) that matches exactly one of the words, else 0.
RECURSIVE FirstStep(_, _, _)
FirstStep(constraints, words, i) ==
  IF i > Len(constraints) THEN 0
  ELSE IF Cardinality({k \in 1..Len(words) : matches(constraints[i], words[k])}) = 1
  THEN i
  ELSE FirstStep(constraints, words, i + 1)

RemoveAt(s, i) == SubSeq(s, 1, i - 1) \o SubSeq(s, i + 1, Len(s))

\* validateSolvability(constraints, allWords)
RECURSIVE validateSolvability(_, _)
validateSolvability(remainingConstraints, remainingWords) ==
  IF remainingWords = <<>> THEN TRUE
  ELSE LET i == FirstStep(remainingConstraints, remainingWords, 1)
       IN  IF i = 0 THEN FALSE
           ELSE LET solvedWord ==
                      remainingWords[CHOOSE k \in 1..Len(remainingWords) :
                                       matches(remainingConstraints[i], remainingWords[k])]
                IN  validateSolvability(RemoveAt(remainingConstraints, i),
                                        SelectSeq(remainingWords, LAMBDA w : w # solvedWord))

\* The rounds of the simulation loop of validateSolvability, in order: what
\* remained when the round began, the constraint it spliced out and matches[0].
RECURSIVE SimulationSteps(_, _)
SimulationSteps(remainingConstraints, remainingWords) ==
  IF remainingWords = <<>> THEN <<>>
  ELSE LET i == FirstStep(remainingConstraints, remainingWords, 1)
       IN  IF i = 0 THEN <<>>
           ELSE LET solvedWord ==
                      SelectSeq(remainingWords,
                                LAMBDA w : matches(remainingConstraints[i], w))[1]
                IN  <<[constraints |-> remainingConstraints,
                       words       |-> remainingWords,
                       i           |-> i,
                       c           |-> remainingConstraints[i],
                       solvedWord  |-> solvedWord]>>
                    \o SimulationSteps(RemoveAt(remainingConstraints, i),
                                       SelectSeq(remainingWords,
                                                 LAMBDA w : w # solvedWord))

ambiguousCount(selection) ==
  Cardinality({i \in 1..Len(selection) : selection[i].overlapScore >= 2})

\* The null attemptBuild returns: no selection of a pool is empty.
NO_SELECTION == <<>>

\* The tail of attemptBuild for a complete selection: null or the selection.
BuildVerdict(selection, forced, requiredAmbiguous, pool) ==
  IF Len(selection) # Len(pool) THEN NO_SELECTION
  ELSE IF ambiguousCount(selection) < Min(requiredAmbiguous, Len(forced)) THEN NO_SELECTION
  ELSE IF ~validateSolvability(selection, pool) THEN NO_SELECTION
  ELSE selection

\* The selections the two loops of attemptBuild can end with: the forced
\* words first, then the shuffled pool.
AttemptSelections(forced, rnd, pool, cbw, bwm, budget) ==
  UNION {
    {[arr |-> sel, left |-> orderedWords.left] :
       sel \in Selections(forced \o Without(orderedWords.arr, SeqToSet(forced)),
                          SeqToSet(forced), rnd, cbw, bwm)} :
    orderedWords \in shuffle(pool, rnd, budget)}

\* What attemptBuild(forcedSet, requiredAmbiguous, randomize) can return.
attemptBuild(forced, requiredAmbiguous, rnd, pool, cbw, bwm, budget) ==
  IF \E i \in 1..Len(forced) : cbw[forced[i]].ambiguous = <<>>
  THEN {[arr |-> NO_SELECTION, left |-> budget]}
  ELSE {[arr  |-> BuildVerdict(s.arr, forced, requiredAmbiguous, pool),
          left |-> s.left] :
           s \in AttemptSelections(forced, rnd, pool, cbw, bwm, budget)}

\* --------------------------------------------------------- DGA: the result

\* Fault injection for C2: the clue's word taken from the first matching word
\* instead of the target word.
ClueOfFirstMatch(c, pool) ==
  [id                 |-> 0,
   word               |-> sort(SelectSeq(pool, LAMBDA w : matches(c, w)))[1],
   anchorChar         |-> c.visual.anchorChar,
   shortLeadingSlots  |-> c.visual.shortLeadingSlots,
   shortTrailingSlots |-> c.visual.shortTrailingSlots,
   infiniteSide       |-> c.visual.infiniteSide,
   infiniteSlotCount  |-> c.visual.infiniteSlotCount,
   isAmbiguous        |-> c.overlapScore > 1,
   matchingWords      |-> sort(SelectSeq(pool, LAMBDA w : matches(c, w)))]

\* Fault injection for C5: isAmbiguous set from overlapScore > 2.
ClueStrictAmbiguity(c, pool) ==
  [id                 |-> 0,
   word               |-> c.targetWord,
   anchorChar         |-> c.visual.anchorChar,
   shortLeadingSlots  |-> c.visual.shortLeadingSlots,
   shortTrailingSlots |-> c.visual.shortTrailingSlots,
   infiniteSide       |-> c.visual.infiniteSide,
   infiniteSlotCount  |-> c.visual.infiniteSlotCount,
   isAmbiguous        |-> c.overlapScore > 2,
   matchingWords      |-> sort(SelectSeq(pool, LAMBDA w : matches(c, w)))]

\* The clue made of constraint c, before it gets its id.
Clue(c, pool) ==
  [id                 |-> 0,
   word               |-> c.targetWord,
   anchorChar         |-> c.visual.anchorChar,
   shortLeadingSlots  |-> c.visual.shortLeadingSlots,
   shortTrailingSlots |-> c.visual.shortTrailingSlots,
   infiniteSide       |-> c.visual.infiniteSide,
   infiniteSlotCount  |-> c.visual.infiniteSlotCount,
   isAmbiguous        |-> c.overlapScore > 1,
   matchingWords      |-> sort(SelectSeq(pool, LAMBDA w : matches(c, w)))]

\* shuffledClues.forEach((c, i) => c.id = i + 1)
AssignIds(clues) == [i \in 1..Len(clues) |-> [clues[i] EXCEPT !.id = i]]

\* The results a successful selection can be returned as: its clues, shuffled
\* and numbered, and the sorted word bank.
SuccessResults(selection, pool, budget) ==
  {[clues    |-> AssignIds(shuffledClues.arr),
    wordBank |-> sort(pool),
    success  |-> TRUE,
    message  |-> "none"] :
     shuffledClues \in shuffle([i \in 1..Len(selection) |-> Clue(selection[i], pool)],
                               TRUE, budget)}

\* ------------------------------------------------------ DGA: the actions

InitDGA ==
  /\ wordList \in WordLists
  /\ limit \in Limits
  /\ pc = "start"
  /\ uniqueWords = <<>>
  /\ constraintsByWord = <<>>
  /\ bucketWordMembers = <<>>
  /\ ambiguousComponents = <<>>
  /\ attempt = 0
  /\ required = 0
  /\ randomize = TRUE
  /\ forcedSet = {}
  /\ minimumRequired = 0
  /\ result = NoResult

\* Lines 145-156: sanitize, deduplicate, cut to the limit, refuse a short list.
Sanitize ==
  /\ pc = "start"
  /\ \E subset \in SubsetOutcomes(Dedup(Sanitized(wordList)), limit) :
       /\ uniqueWords' = subset
       /\ IF Len(subset) < MIN_WORDS
          THEN /\ pc' = "done"
               /\ result' = [clues |-> <<>>, wordBank |-> subset, success |-> FALSE,
                             message |-> TooFewMessage]
          ELSE /\ pc' = "map"
               /\ UNCHANGED result
  /\ UNCHANGED <<wordList, limit, constraintsByWord, bucketWordMembers,
                 ambiguousComponents, attempt, required, randomize, forcedSet,
                 minimumRequired>>
  /\ UNCHANGED dgaFrame

\* Lines 158-277: the constraints of every word, the buckets, the components.
MapConstraints ==
  /\ pc = "map"
  /\ LET cbw == BuildConstraintsByWord(uniqueWords)
         bwm == BuildBucketWordMembers(uniqueWords, cbw)
     IN  /\ constraintsByWord' = cbw
         /\ bucketWordMembers' = bwm
         /\ ambiguousComponents' = BuildAmbiguousComponents(uniqueWords, cbw, bwm)
  /\ attempt' = 0
  /\ randomize' = TRUE
  /\ pc' = "loop"
  /\ UNCHANGED <<wordList, limit, uniqueWords, required, forcedSet, minimumRequired,
                 result>>
  /\ UNCHANGED dgaFrame

TARGET == TARGET_AMBIGUOUS_COUNT(ambiguousComponents)

\* One attempt or pass: computeForcedAmbiguousSet, attemptBuild and, for a
\* selection, lines 416-449 (460-488): format, shuffle, number, return. After
\* null the counter `attempt` goes up in the generator loop and `required`
\* goes down in the fallback loop.
AttemptWith(desired, rnd) ==
  \E forced \in computeForcedAmbiguousSet(desired, rnd, ambiguousComponents, MaxSwaps) :
    \E built \in attemptBuild(forced.arr, desired, rnd, uniqueWords, constraintsByWord,
                              bucketWordMembers, forced.left) :
      /\ forcedSet' = SeqToSet(forced.arr)
      /\ minimumRequired' = Min(desired, Len(forced.arr))
      /\ IF built.arr = NO_SELECTION
         THEN /\ attempt' = IF rnd THEN attempt + 1 ELSE attempt
              /\ required' = IF rnd THEN required ELSE required - 1
              /\ UNCHANGED <<pc, result>>
         ELSE /\ pc' = "done"
              /\ result' \in SuccessResults(built.arr, uniqueWords, built.left)
              /\ UNCHANGED <<attempt, required>>

\* Fault injection for C22: the generator loop without its bound on attempt.
RandomAttemptUnbounded ==
  /\ pc = "loop"
  /\ randomize
  /\ AttemptWith(TARGET, TRUE)
  /\ UNCHANGED <<wordList, limit, uniqueWords, constraintsByWord, bucketWordMembers,
                 ambiguousComponents, randomize>>
  /\ UNCHANGED dgaFrame

\* Lines 410-451: one round of the generator loop.
RandomAttempt ==
  /\ pc = "loop"
  /\ randomize
  /\ attempt < MaxAttempts
  /\ AttemptWith(TARGET, TRUE)
  /\ UNCHANGED <<wordList, limit, uniqueWords, constraintsByWord, bucketWordMembers,
                 ambiguousComponents, randomize>>
  /\ UNCHANGED dgaFrame

\* Line 454: the generator loop is over, the fallback loop starts at the target.
StartFallback ==
  /\ pc = "loop"
  /\ randomize
  /\ attempt >= MaxAttempts
  /\ randomize' = FALSE
  /\ required' = TARGET
  /\ UNCHANGED <<wordList, limit, pc, uniqueWords, constraintsByWord,
                 bucketWordMembers, ambiguousComponents, attempt, forcedSet,
                 minimumRequired, result>>
  /\ UNCHANGED dgaFrame

\* Lines 454-489: one pass of the fallback loop.
FallbackAttempt ==
  /\ pc = "loop"
  /\ ~randomize
  /\ required >= 0
  /\ AttemptWith(required, FALSE)
  /\ UNCHANGED <<wordList, limit, uniqueWords, constraintsByWord, bucketWordMembers,
                 ambiguousComponents, randomize>>
  /\ UNCHANGED dgaFrame

\* Fault injection for C3: the fallback loop left before its pass with
\* required = 0.
GiveUpBeforeZero ==
  /\ pc = "loop"
  /\ ~randomize
  /\ required < 1
  /\ pc' = "done"
  /\ result' = [clues |-> <<>>, wordBank |-> uniqueWords, success |-> FALSE,
                message |-> NoPathMessage]
  /\ UNCHANGED <<wordList, limit, uniqueWords, constraintsByWord, bucketWordMembers,
                 ambiguousComponents, attempt, required, randomize, forcedSet,
                 minimumRequired>>
  /\ UNCHANGED dgaFrame

\* Lines 491-496: no pass of the fallback loop returned.
GiveUp ==
  /\ pc = "loop"
  /\ ~randomize
  /\ required < 0
  /\ pc' = "done"
  /\ result' = [clues |-> <<>>, wordBank |-> uniqueWords, success |-> FALSE,
                message |-> NoPathMessage]
  /\ UNCHANGED <<wordList, limit, uniqueWords, constraintsByWord, bucketWordMembers,
                 ambiguousComponents, attempt, required, randomize, forcedSet,
                 minimumRequired>>
  /\ UNCHANGED dgaFrame

NextDGA ==
  \/ Sanitize
  \/ MapConstraints
  \/ RandomAttempt
  \/ StartFallback
  \/ FallbackAttempt
  \/ GiveUp

\* The state before generate is called with nothing to do: the DGA part of
\* the state while the crossword engine runs.
IdleDGA ==
  /\ wordList = <<>>
  /\ limit = DEFAULT_LIMIT
  /\ pc = "idle"
  /\ uniqueWords = <<>>
  /\ constraintsByWord = <<>>
  /\ bucketWordMembers = <<>>
  /\ ambiguousComponents = <<>>
  /\ attempt = 0
  /\ required = 0
  /\ randomize = TRUE
  /\ forcedSet = {}
  /\ minimumRequired = 0
  /\ result = NoResult

\* ------------------------------------------------------ crossword: inputs

\* Words a caller may pass: words that cross, words that share no letter, a
\* word twice, a word longer than the smallest grid.
CrossLexicon ==
  << <<"C", "A", "T">>,
     <<"T", "A", "B">>,
     <<"A", "C", "T">>,
     <<"B", "A", "T", "C", "H">>,
     <<"A", "T">>,
     <<"E", "E">>,
     <<"C", "A", "T">> >>

\* The sub-lists of CrossLexicon with at most MaxInputs words, as WordInput[].
CrossInputs ==
  {[i \in 1..Len(ws) |-> [word |-> ws[i].word]] :
     ws \in {SelectSeq([i \in 1..Len(CrossLexicon) |-> [at |-> i, word |-> CrossLexicon[i]]],
                       LAMBDA e : e.at \in keep) :
               keep \in {k \in SUBSET (1..Len(CrossLexicon)) : Cardinality(k) <= MaxInputs}}}

GridSizes == {4, 5, 6}

\* ------------------------------------------------------- crossword: grid

\* isValid(r, c)
isValid(r, c, size) == r >= 0 /\ r < size /\ c >= 0 /\ c < size

\* isEmpty(r, c)
isEmpty(r, c, g, size) == isValid(r, c, size) /\ g[r][c] = NULL

\* The cell an in-bounds neighbour test of canPlaceWord refuses: valid and filled.
Occupied(r, c, g, size) == isValid(r, c, size) /\ ~isEmpty(r, c, g, size)

\* The row and the column of letter i (0-based) of a word at (row, col).
RowOf(row, direction, i) == IF direction = "across" THEN row ELSE row + i

ColOf(col, direction, i) == IF direction = "across" THEN col + i ELSE col

\* Fault injection for C9: canPlaceWord without the test of a filled cell
\* against the letter of the word.
canPlaceWordNoCollision(word, row, col, direction, g, size) ==
  /\ ~(row < 0 \/ row >= size \/ col < 0 \/ col >= size)
  /\ IF direction = "across"
     THEN /\ col + Len(word) <= size
          /\ ~Occupied(row, col - 1, g, size)
          /\ ~Occupied(row, col + Len(word), g, size)
     ELSE /\ row + Len(word) <= size
          /\ ~Occupied(row - 1, col, g, size)
          /\ ~Occupied(row + Len(word), col, g, size)
  /\ \A i \in 0..(Len(word) - 1) :
       LET r == RowOf(row, direction, i)
           c == ColOf(col, direction, i)
       IN  /\ isValid(r, c, size)
           /\ g[r][c] = NULL =>
                IF direction = "across"
                THEN ~(Occupied(r - 1, c, g, size) \/ Occupied(r + 1, c, g, size))
                ELSE ~(Occupied(r, c - 1, g, size) \/ Occupied(r, c + 1, g, size))

\* Fault injection for C10: canPlaceWord without the test of the
\* perpendicular neighbours of an empty cell.
canPlaceWordNoNeighbours(word, row, col, direction, g, size) ==
  /\ ~(row < 0 \/ row >= size \/ col < 0 \/ col >= size)
  /\ IF direction = "across"
     THEN /\ col + Len(word) <= size
          /\ ~Occupied(row, col - 1, g, size)
          /\ ~Occupied(row, col + Len(word), g, size)
     ELSE /\ row + Len(word) <= size
          /\ ~Occupied(row - 1, col, g, size)
          /\ ~Occupied(row + Len(word), col, g, size)
  /\ \A i \in 0..(Len(word) - 1) :
       LET r == RowOf(row, direction, i)
           c == ColOf(col, direction, i)
       IN  /\ isValid(r, c, size)
           /\ g[r][c] # NULL => g[r][c] = word[i + 1]

\* canPlaceWord(word, row, col, direction)
canPlaceWord(word, row, col, direction, g, size) ==
  /\ ~(row < 0 \/ row >= size \/ col < 0 \/ col >= size)
  /\ IF direction = "across"
     THEN /\ col + Len(word) <= size
          /\ ~Occupied(row, col - 1, g, size)
          /\ ~Occupied(row, col + Len(word), g, size)
     ELSE /\ row + Len(word) <= size
          /\ ~Occupied(row - 1, col, g, size)
          /\ ~Occupied(row + Len(word), col, g, size)
  /\ \A i \in 0..(Len(word) - 1) :
       LET r == RowOf(row, direction, i)
           c == ColOf(col, direction, i)
       IN  /\ isValid(r, c, size)
           /\ IF g[r][c] = NULL
              THEN IF direction = "across"
                   THEN ~(Occupied(r - 1, c, g, size) \/ Occupied(r + 1, c, g, size))
                   ELSE ~(Occupied(r, c - 1, g, size) \/ Occupied(r, c + 1, g, size))
              ELSE g[r][c] = word[i + 1]

\* placeWord(word, row, col, direction): the grid with the letters written.
placeWord(word, row, col, direction, g) ==
  [r \in DOMAIN g |->
     [c \in DOMAIN g[r] |->
        IF \E i \in 0..(Len(word) - 1) :
             RowOf(row, direction, i) = r /\ ColOf(col, direction, i) = c
        THEN word[(CHOOSE i \in 0..(Len(word) - 1) :
                     RowOf(row, direction, i) = r /\ ColOf(col, direction, i) = c) + 1]
        ELSE g[r][c]]]

\* Array(gridSize).fill(null).map(() => Array(gridSize).fill(null))
EmptyGrid(size) == [r \in 0..(size - 1) |-> [c \in 0..(size - 1) |-> NULL]]

\* The grid of inactive cells the early returns hand back.
emptyGrid(size) ==
  [r \in 0..(size - 1) |->
     [c \in 0..(size - 1) |-> [char |-> "", isActive |-> FALSE, number |-> 0]]]

\* ---------------------------------------------------- crossword: generate

\* rest.sort((a, b) => b.word.length - a.word.length): a stable sort, the
\* longer word first.
RECURSIVE InsertByLength(_, _)
InsertByLength(sorted, x) ==
  IF sorted = <<>> THEN <<x>>
  ELSE IF Len(x.word) > Len(Head(sorted).word) THEN <<x>> \o sorted
  ELSE <<Head(sorted)>> \o InsertByLength(Tail(sorted), x)

RECURSIVE SortByLength(_)
SortByLength(inputList) ==
  IF inputList = <<>> THEN <<>>
  ELSE InsertByLength(SortByLength(SubSeq(inputList, 1, Len(inputList) - 1)),
                      inputList[Len(inputList)])

\* [anchor, ...rest] for the drawn randIndex (1-based here).
SortedInputs(inputList, randIndex) ==
  <<inputList[randIndex]>>
    \o SortByLength(SubSeq(inputList, 1, randIndex - 1)
                      \o SubSeq(inputList, randIndex + 1, Len(inputList)))

\* Fault injection for C13: the half rounded up.
FloorHalfUp(a) == (a + 1) \div 2

\* Math.floor(a / 2) for an integer a.
FloorHalf(a) == a \div 2

\* Fault injection for C24: the letters of the placed word scanned from last
\* to first.
TriesLastLetterFirst(current, placed) ==
  Flatten([p \in 1..Len(placed) |->
    Flatten([jj \in 1..Len(placed[p].word) |->
      LET j            == Len(placed[p].word) + 1 - jj
          tryDir       == IF placed[p].direction = "across" THEN "down" ELSE "across"
          intersectRow == RowOf(placed[p].row, placed[p].direction, j - 1)
          intersectCol == ColOf(placed[p].col, placed[p].direction, j - 1)
          hits == SelectSeq([k \in 1..Len(current) |-> k],
                            LAMBDA k : current[k] = placed[p].word[j])
      IN  [h \in 1..Len(hits) |->
             [row       |-> IF tryDir = "down" THEN intersectRow - (hits[h] - 1)
                            ELSE intersectRow,
              col       |-> IF tryDir = "across" THEN intersectCol - (hits[h] - 1)
                            ELSE intersectCol,
              direction |-> tryDir]]])])

\* The positions the three loops over placedWords, j and k try for `current`,
\* in the order they try them.
Tries(current, placed) ==
  Flatten([p \in 1..Len(placed) |->
    Flatten([j \in 1..Len(placed[p].word) |->
      LET tryDir       == IF placed[p].direction = "across" THEN "down" ELSE "across"
          intersectRow == RowOf(placed[p].row, placed[p].direction, j - 1)
          intersectCol == ColOf(placed[p].col, placed[p].direction, j - 1)
          hits == SelectSeq([k \in 1..Len(current) |-> k],
                            LAMBDA k : current[k] = placed[p].word[j])
      IN  [h \in 1..Len(hits) |->
             [row       |-> IF tryDir = "down" THEN intersectRow - (hits[h] - 1)
                            ELSE intersectRow,
              col       |-> IF tryDir = "across" THEN intersectCol - (hits[h] - 1)
                            ELSE intersectCol,
              direction |-> tryDir]]])])

\* The tried positions canPlaceWord accepts, in the order of the loops.
Fits(current, placed, g, size) ==
  SelectSeq(Tries(current, placed),
            LAMBDA t : canPlaceWord(current, t.row, t.col, t.direction, g, size))

\* Fault injection for C11: the starts compared by column first.
StartBeforeColumnFirst(a, b) == IF a.c = b.c THEN a.r < b.r ELSE a.c < b.c

\* a before b in allStarts.sort((a, b) => a.r === b.r ? a.c - b.c : a.r - b.r)
StartBefore(a, b) == IF a.r = b.r THEN a.c < b.c ELSE a.r < b.r

RECURSIVE InsertStart(_, _)
InsertStart(sorted, x) ==
  IF sorted = <<>> THEN <<x>>
  ELSE IF StartBefore(x, Head(sorted)) THEN <<x>> \o sorted
  ELSE <<Head(sorted)>> \o InsertStart(Tail(sorted), x)

RECURSIVE SortStarts(_)
SortStarts(starts) ==
  IF starts = <<>> THEN <<>>
  ELSE InsertStart(SortStarts(SubSeq(starts, 1, Len(starts) - 1)), starts[Len(starts)])

\* startPositions: the sorted starts without repetition; the number of a
\* start is its place in this sequence.
startPositions(placed) ==
  Dedup(SortStarts([p \in 1..Len(placed) |-> [r |-> placed[p].row, c |-> placed[p].col]]))

\* startPositions.get(`${r},${c}`), 0 for undefined.
NumberAt(r, c, placed) ==
  LET starts == startPositions(placed)
  IN  IF \E n \in 1..Len(starts) : starts[n] = [r |-> r, c |-> c]
      THEN CHOOSE n \in 1..Len(starts) : starts[n] = [r |-> r, c |-> c]
      ELSE 0

finalPlacedWords(placed) ==
  [p \in 1..Len(placed) |->
     [placed[p] EXCEPT !.number = NumberAt(placed[p].row, placed[p].col, placed)]]

finalGrid(g, placed, size) ==
  [r \in 0..(size - 1) |->
     [c \in 0..(size - 1) |->
        [char     |-> IF g[r][c] = NULL THEN "" ELSE g[r][c],
         isActive |-> g[r][c] # NULL,
         number   |-> NumberAt(r, c, placed)]]]

\* -------------------------------------------------- crossword: actions

\* The state before generate: the grid the constructor made.
InitCW ==
  /\ inputs \in CrossInputs
  /\ gridSize \in GridSizes
  /\ cwPc = "start"
  /\ grid = EmptyGrid(gridSize)
  /\ sortedInputs = <<>>
  /\ placedWords = <<>>
  /\ unusedWords = <<>>
  /\ wordIndex = 0
  /\ generated = NoGeneration
  /\ drawn = 0
  /\ earlier = NoCall

\* The crossword part of the state while the DGA runs.
IdleCW ==
  /\ inputs = <<>>
  /\ gridSize = 0
  /\ cwPc = "idle"
  /\ grid = <<>>
  /\ sortedInputs = <<>>
  /\ placedWords = <<>>
  /\ unusedWords = <<>>
  /\ wordIndex = 0
  /\ generated = NoGeneration
  /\ drawn = 0
  /\ earlier = NoCall

\* Fault injection for C27: generate without the reset of this.grid.
PickAnchorOnOldGrid ==
  /\ cwPc = "start"
  /\ IF Len(inputs) > 0
     THEN /\ \E randIndex \in 1..Len(inputs) :
               /\ sortedInputs' = SortedInputs(inputs, randIndex)
               /\ drawn' = randIndex
          /\ cwPc' = "first"
          /\ UNCHANGED generated
     ELSE /\ generated' = [grid |-> emptyGrid(gridSize), placedWords |-> <<>>,
                           unusedWords |-> <<>>, gridSize |-> gridSize]
          /\ cwPc' = "done"
          /\ UNCHANGED <<sortedInputs, drawn>>
  /\ UNCHANGED <<inputs, gridSize, grid, placedWords, unusedWords, wordIndex, earlier>>
  /\ UNCHANGED cwFrame

\* Lines 584-609: reset the grid, draw the anchor, sort the rest; an empty
\* list returns the empty grid.
PickAnchor ==
  /\ cwPc = "start"
  /\ grid' = EmptyGrid(gridSize)
  /\ IF Len(inputs) > 0
     THEN /\ \E randIndex \in 1..Len(inputs) :
               /\ sortedInputs' = SortedInputs(inputs, randIndex)
               /\ drawn' = randIndex
          /\ cwPc' = "first"
          /\ UNCHANGED generated
     ELSE /\ generated' = [grid |-> emptyGrid(gridSize), placedWords |-> <<>>,
                           unusedWords |-> <<>>, gridSize |-> gridSize]
          /\ cwPc' = "done"
          /\ UNCHANGED <<sortedInputs, drawn>>
  /\ UNCHANGED <<inputs, gridSize, placedWords, unusedWords, wordIndex, earlier>>
  /\ UNCHANGED cwFrame

\* Lines 613-637: the first word goes to the middle row, across; a first
\* word longer than the grid returns the empty grid with every word unused.
PlaceFirst ==
  /\ cwPc = "first"
  /\ LET first    == sortedInputs[1]
         startRow == FloorHalf(gridSize - 1)
         startCol == FloorHalf(gridSize - Len(first.word))
     IN  IF Len(first.word) > gridSize
         THEN /\ unusedWords' = [i \in 1..Len(sortedInputs) |-> sortedInputs[i].word]
              /\ generated' = [grid |-> emptyGrid(gridSize), placedWords |-> <<>>,
                               unusedWords |-> unusedWords', gridSize |-> gridSize]
              /\ cwPc' = "done"
              /\ UNCHANGED <<grid, placedWords, wordIndex>>
         ELSE /\ IF canPlaceWord(first.word, startRow, startCol, "across", grid, gridSize)
                 THEN /\ grid' = placeWord(first.word, startRow, startCol, "across", grid)
                      /\ placedWords' = <<[word |-> first.word, row |-> startRow,
                                           col |-> startCol, direction |-> "across",
                                           number |-> 0]>>
                      /\ UNCHANGED unusedWords
                 ELSE /\ unusedWords' = <<first.word>>
                      /\ UNCHANGED <<grid, placedWords>>
              /\ wordIndex' = 2
              /\ cwPc' = "rest"
              /\ UNCHANGED generated
  /\ UNCHANGED <<inputs, gridSize, sortedInputs, drawn, earlier>>
  /\ UNCHANGED cwFrame

\* Lines 640-674: one round of the loop over the remaining words: the first
\* tried position that canPlaceWord accepts, else the word is unused.
PlaceNext ==
  /\ cwPc = "rest"
  /\ wordIndex <= Len(sortedInputs)
  /\ LET word == sortedInputs[wordIndex].word
         fits == Fits(word, placedWords, grid, gridSize)
     IN  IF fits # <<>>
         THEN /\ grid' = placeWord(word, fits[1].row, fits[1].col, fits[1].direction, grid)
              /\ placedWords' = Append(placedWords,
                                       [word |-> word, row |-> fits[1].row,
                                        col |-> fits[1].col,
                                        direction |-> fits[1].direction, number |-> 0])
              /\ UNCHANGED unusedWords
         ELSE /\ unusedWords' = Append(unusedWords, word)
              /\ UNCHANGED <<grid, placedWords>>
  /\ wordIndex' = wordIndex + 1
  /\ UNCHANGED <<inputs, gridSize, cwPc, sortedInputs, generated, drawn, earlier>>
  /\ UNCHANGED cwFrame

\* Lines 676-713: number the starts, build the final grid, return.
Finish ==
  /\ cwPc = "rest"
  /\ wordIndex > Len(sortedInputs)
  /\ generated' = [grid        |-> finalGrid(grid, placedWords, gridSize),
                   placedWords |-> finalPlacedWords(placedWords),
                   unusedWords |-> unusedWords,
                   gridSize    |-> gridSize]
  /\ cwPc' = "done"
  /\ UNCHANGED <<inputs, gridSize, grid, sortedInputs, placedWords, unusedWords, wordIndex, drawn,
                 earlier>>
  /\ UNCHANGED cwFrame

\* generate called once more on the same instance with the same inputs: the
\* locals of the call are new, this.grid is what the last call left, and the
\* caller still holds the last result.
CallAgain ==
  /\ cwPc = "done"
  /\ cwPc' = "start"
  /\ sortedInputs' = <<>>
  /\ placedWords' = <<>>
  /\ unusedWords' = <<>>
  /\ wordIndex' = 0
  /\ drawn' = 0
  /\ earlier' = [drawn |-> drawn, generated |-> generated]
  /\ UNCHANGED <<inputs, gridSize, grid, generated>>
  /\ UNCHANGED cwFrame

NextCW ==
  \/ PickAnchor
  \/ PlaceFirst
  \/ PlaceNext
  \/ Finish
  \/ CallAgain

\* ============================================================ Tic-Tac-Word

MAX_GRID_ATTEMPTS == 50

MAX_SELECTION_ATTEMPTS == 120

\* Boards of one result, cells of one board.
GRID_COUNT == 4

CELL_COUNT == 9

DIFFICULTY_PROFILES ==
  [easy   |-> [allowedKinds   |-> {"length", "start", "end"},
               defaultKindCap |-> 4,
               perKindCap     |-> [k \in {"length"} |-> 5],
               bandWeights    |-> [high |-> 4, medium |-> 2, low |-> 1]],
   medium |-> [allowedKinds   |-> {"length", "start", "end", "pos", "pos_start",
                                   "pos_end", "length_start", "length_end"},
               defaultKindCap |-> 3,
               perKindCap     |-> [k \in {"pos"} |-> 4],
               bandWeights    |-> [high |-> 3, medium |-> 4, low |-> 2]],
   hard   |-> [allowedKinds   |-> {"length", "start", "end", "pos", "pos_start",
                                   "pos_end", "pos_length", "start_end",
                                   "length_start", "length_end"},
               defaultKindCap |-> 3,
               perKindCap     |-> [k \in {"pos", "start_end"} |-> 4],
               bandWeights    |-> [high |-> 1, medium |-> 3, low |-> 5]]]

Difficulties == {"easy", "medium", "hard"}

AMBIGUITY_THRESHOLDS ==
  [high |-> [min |-> 4], medium |-> [min |-> 2], low |-> [min |-> 1]]

\* ------------------------------------------------ Tic-Tac-Word: processInput

\* The pos of a word without a part-of-speech tag (null).
NoPos == <<>>

IsLetter(ch) ==
  \E i \in 1..Len(UpperLetters) : UpperLetters[i] = ch \/ LowerLetters[i] = ch

\* String.prototype.toLowerCase, character by character.
LowerChar(ch) ==
  IF \E i \in 1..Len(UpperLetters) : UpperLetters[i] = ch
  THEN LowerLetters[CHOOSE i \in 1..Len(UpperLetters) : UpperLetters[i] = ch]
  ELSE ch

toLowerCase(w) == [i \in 1..Len(w) |-> LowerChar(w[i])]

\* How many letters the clue starts with.
RECURSIVE LeadingLetters(_)
LeadingLetters(clue) ==
  IF clue = <<>> \/ ~IsLetter(Head(clue)) THEN 0
  ELSE 1 + LeadingLetters(Tail(clue))

\* getPOS(clue): the match of /^([a-z]{1,4}\.)/i in lower case, else null.
getPOS(clue) ==
  LET n == LeadingLetters(clue)
  IN  IF n >= 1 /\ n <= 4 /\ Len(clue) > n /\ clue[n + 1] = "."
      THEN toLowerCase(SubSeq(clue, 1, n + 1))
      ELSE NoPos

\* Fault injection for C15: the test seen.has(cleanWord) left out.
SeenNever(front, cleanWord) == FALSE

\* seen.has(cleanWord), for the words processed before.
SeenBefore(front, cleanWord) == \E i \in 1..Len(front) : front[i].word = cleanWord

\* The words processInput has pushed after the first n raw words.
RECURSIVE ProcessedUpTo(_, _, _)
ProcessedUpTo(words, clues, n) ==
  IF n = 0 THEN <<>>
  ELSE LET front     == ProcessedUpTo(words, clues, n - 1)
           cleanWord == trim(toUpperCase(words[n]))
       IN  IF cleanWord = <<>> \/ SeenBefore(front, cleanWord) THEN front
           ELSE Append(front,
                       [word  |-> cleanWord,
                        len   |-> Len(cleanWord),
                        start |-> cleanWord[1],
                        end   |-> cleanWord[Len(cleanWord)],
                        pos   |-> IF n <= Len(clues) /\ clues[n] # <<>>
                                  THEN getPOS(clues[n]) ELSE NoPos])

processInput(words, clues) == ProcessedUpTo(words, clues, Len(words))

\* ------------------------------------- Tic-Tac-Word: constraint candidates

\* The attributes a kind of constraint sets.
KindFields(kind) ==
  CASE kind = "length"       -> {"length"}
    [] kind = "start"        -> {"start"}
    [] kind = "end"          -> {"end"}
    [] kind = "pos"          -> {"pos"}
    [] kind = "pos_start"    -> {"pos", "start"}
    [] kind = "pos_end"      -> {"pos", "end"}
    [] kind = "pos_length"   -> {"pos", "length"}
    [] kind = "start_end"    -> {"start", "end"}
    [] kind = "length_start" -> {"length", "start"}
    [] kind = "length_end"   -> {"length", "end"}

\* The attributes object ensureBucket is called with for a kind and a word;
\* an attribute that is not set is 0, "" or NoPos.
AttributesFor(kind, w) ==
  [length |-> IF "length" \in KindFields(kind) THEN w.len ELSE 0,
   start  |-> IF "start" \in KindFields(kind) THEN w.start ELSE "",
   end    |-> IF "end" \in KindFields(kind) THEN w.end ELSE "",
   pos    |-> IF "pos" \in KindFields(kind) THEN w.pos ELSE NoPos]

\* The kinds ensureBucket is called with for one word, in call order.
WordKinds(w) ==
  <<"length", "start", "end", "length_start", "length_end", "start_end">>
    \o (IF w.pos # NoPos THEN <<"pos", "pos_start", "pos_end", "pos_length">> ELSE <<>>)

\* buildKey(kind, attributes): the kind and the set attributes, in the
\* order pos, len, start, end.
buildKey(kind, attributes) ==
  [kind  |-> kind,
   pos   |-> attributes.pos,
   len   |-> attributes.length,
   start |-> attributes.start,
   end   |-> attributes.end]

\* buildLabel(kind, attributes) is not null: every attribute of the kind is set.
HasLabel(kind, attributes) ==
  /\ "length" \in KindFields(kind) => attributes.length # 0
  /\ "start" \in KindFields(kind) => attributes.start # ""
  /\ "end" \in KindFields(kind) => attributes.end # ""
  /\ "pos" \in KindFields(kind) => attributes.pos # NoPos

\* cloneAttributes(attributes): a new object with the attributes that are set.
cloneAttributes(attributes) ==
  [length |-> IF attributes.length # 0 THEN attributes.length ELSE 0,
   start  |-> IF attributes.start # "" THEN attributes.start ELSE "",
   end    |-> IF attributes.end # "" THEN attributes.end ELSE "",
   pos    |-> IF attributes.pos # NoPos THEN attributes.pos ELSE NoPos]

\* classifyAmbiguity(count)
classifyAmbiguity(count) ==
  IF count >= AMBIGUITY_THRESHOLDS.high.min THEN "high"
  ELSE IF count >= AMBIGUITY_THRESHOLDS.medium.min THEN "medium"
  ELSE "low"

\* The calls of ensureBucket that reach a bucket, in call order.
BucketCalls(words) ==
  SelectSeq(
    Flatten([i \in 1..Len(words) |->
               [j \in 1..Len(WordKinds(words[i])) |->
                  [kind       |-> WordKinds(words[i])[j],
                   attributes |-> AttributesFor(WordKinds(words[i])[j], words[i]),
                   word       |-> words[i].word]]]),
    LAMBDA call : HasLabel(call.kind, call.attributes))

\* The elements of s at their first occurrence: the order in which a Map
\* gets its keys.
FirstOccurrences(s) ==
  LET firsts == SelectSeq([n \in 1..Len(s) |-> n],
                          LAMBDA n : \A m \in 1..(n - 1) : s[m] # s[n])
  IN  [b \in 1..Len(firsts) |-> s[firsts[b]]]

\* buildConstraintCandidates(words): one candidate for each bucket, in the
\* order the buckets were created, with its words sorted.
buildConstraintCandidates(words) ==
  LET calls == BucketCalls(words)
      keys  == FirstOccurrences([n \in 1..Len(calls) |->
                                   buildKey(calls[n].kind, calls[n].attributes)])
  IN  [b \in 1..Len(keys) |->
         LET mine == SelectSeq(calls, LAMBDA call :
                                 buildKey(call.kind, call.attributes) = keys[b])
             matchingWords == sort(FirstOccurrences([n \in 1..Len(mine) |-> mine[n].word]))
         IN  [key           |-> keys[b],
              kind          |-> keys[b].kind,
              attributes    |-> cloneAttributes(mine[1].attributes),
              matchingWords |-> matchingWords,
              ambiguity     |-> Len(matchingWords),
              band          |-> classifyAmbiguity(Len(matchingWords))]]

\* Fault injection for C17: the candidates of every kind.
EligibleOfAnyKind(pool, profile) == buildConstraintCandidates(pool)

\* The candidates generateGrid keeps: those of a kind the profile allows.
Eligible(pool, profile) ==
  SelectSeq(buildConstraintCandidates(pool),
            LAMBDA candidate : candidate.kind \in profile.allowedKinds)

\* ------------------------------------- Tic-Tac-Word: pickConstraintSet

\* Twice the weight of a candidate without its Math.random() summand:
\* 2 * (ambiguity * 100 + bandWeight * 60 * max(0.1, 1 - attempt / 120)).
\* It is an integer, and two candidates whose values differ are at least 1
\* apart in weight, so the random summand orders candidates of equal value
\* only.
Weight2(candidate, profile, selectionAttempt) ==
  200 * candidate.ambiguity
    + profile.bandWeights[candidate.band]
        * Max(MAX_SELECTION_ATTEMPTS \div 10, MAX_SELECTION_ATTEMPTS - selectionAttempt)

\* weighted.sort((a, b) => b.weight - a.weight) without the random summand:
\* stable, the heavier candidate first.
RECURSIVE InsertByWeight(_, _, _, _)
InsertByWeight(sorted, x, profile, selectionAttempt) ==
  IF sorted = <<>> THEN <<x>>
  ELSE IF Weight2(x, profile, selectionAttempt)
            > Weight2(Head(sorted), profile, selectionAttempt)
       THEN <<x>> \o sorted
       ELSE <<Head(sorted)>> \o InsertByWeight(Tail(sorted), x, profile, selectionAttempt)

RECURSIVE SortByWeight(_, _, _)
SortByWeight(cands, profile, selectionAttempt) ==
  IF cands = <<>> THEN <<>>
  ELSE InsertByWeight(SortByWeight(SubSeq(cands, 1, Len(cands) - 1), profile, selectionAttempt),
                      cands[Len(cands)], profile, selectionAttempt)

\* The runs of candidates of equal value in a sorted list.
RECURSIVE TieGroups(_, _, _)
TieGroups(sorted, profile, selectionAttempt) ==
  IF sorted = <<>> THEN <<>>
  ELSE LET same == SelectSeq(sorted, LAMBDA c :
                     Weight2(c, profile, selectionAttempt)
                       = Weight2(Head(sorted), profile, selectionAttempt))
       IN  <<same>> \o TieGroups(SubSeq(sorted, Len(same) + 1, Len(sorted)),
                                 profile, selectionAttempt)

\* The orders the random summands can give to the groups: each group in any
\* order, explored as the shuffles of the group with at most `budget` moving
\* draws in all.
RECURSIVE GroupOrders(_, _)
GroupOrders(groups, budget) ==
  IF groups = <<>> THEN {[arr |-> <<>>, left |-> budget]}
  ELSE UNION {
         {[arr |-> g.arr \o rest.arr, left |-> rest.left] :
            rest \in GroupOrders(Tail(groups), g.left)} :
         g \in shuffle(Head(groups), TRUE, budget)}

\* `ordered`: the candidates after the weighted sort.
Ordered(cands, profile, selectionAttempt, budget) ==
  GroupOrders(TieGroups(SortByWeight(cands, profile, selectionAttempt),
                        profile, selectionAttempt), budget)

\* boost
boost(selectionAttempt) == Min(3, selectionAttempt \div 25)

\* Fault injection for C18: no cap on the candidates of one kind.
ensureCapUnbounded(kind, profile, selectionAttempt) == CELL_COUNT

\* ensureCap(kind)
ensureCap(kind, profile, selectionAttempt) ==
  (IF kind \in DOMAIN profile.perKindCap THEN profile.perKindCap[kind]
   ELSE profile.defaultKindCap) + boost(selectionAttempt)

\* kindCounts.get(kind) ?? 0
KindCount(pick, kind) == Cardinality({i \in 1..Len(pick) : pick[i].kind = kind})

\* coverage
Coverage(pick) == UNION {SeqToSet(pick[i].matchingWords) : i \in 1..Len(pick)}

\* The first loop over `ordered` (lines 273-287).
RECURSIVE FirstPass(_, _, _, _)
FirstPass(ordered, pick, profile, selectionAttempt) ==
  IF ordered = <<>> \/ Len(pick) >= CELL_COUNT THEN pick
  ELSE LET candidate == Head(ordered)
           skip ==
             \/ \E i \in 1..Len(pick) : pick[i].key = candidate.key
             \/ /\ KindCount(pick, candidate.kind)
                     >= ensureCap(candidate.kind, profile, selectionAttempt)
                /\ Len(pick) < CELL_COUNT
             \/ /\ SeqToSet(candidate.matchingWords) \subseteq Coverage(pick)
                /\ Len(pick) < 6
                /\ selectionAttempt < 40
       IN  FirstPass(Tail(ordered), IF skip THEN pick ELSE Append(pick, candidate),
                     profile, selectionAttempt)

\* The second loop over `ordered` (lines 289-295).
RECURSIVE FillUp(_, _)
FillUp(ordered, pick) ==
  IF ordered = <<>> \/ Len(pick) >= CELL_COUNT THEN pick
  ELSE LET candidate == Head(ordered)
       IN  FillUp(Tail(ordered),
                  IF \E i \in 1..Len(pick) : pick[i].key = candidate.key THEN pick
                  ELSE Append(pick, candidate))

\* pickConstraintSet(candidates, profile, selectionAttempt): for each order
\* of the weighted sort the selection (NO_SELECTION for null), with the
\* number of candidates the first loop picked.
pickConstraintSet(cands, profile, selectionAttempt, budget) ==
  IF Len(cands) < CELL_COUNT
  THEN {[selection |-> NO_SELECTION, firstPass |-> 0, left |-> budget]}
  ELSE {LET first == FirstPass(ordered.arr, <<>>, profile, selectionAttempt)
            pick  == IF Len(first) < CELL_COUNT THEN FillUp(ordered.arr, first) ELSE first
        IN  [selection |-> IF Len(pick) >= CELL_COUNT THEN Take(pick, CELL_COUNT)
                           ELSE NO_SELECTION,
             firstPass |-> Len(first),
             left      |-> ordered.left] :
          ordered \in Ordered(cands, profile, selectionAttempt, budget)}

\* ------------------------------------ Tic-Tac-Word: findDistinctAssignment

\* candidate.matchingWords.filter(word => availableWords.has(word))
OptionsOf(candidate, availableWords) ==
  SelectSeq(candidate.matchingWords, LAMBDA w : w \in availableWords)

\* .sort((a, b) => a.options.length - b.options.length): stable, the entry
\* with fewer options first.
RECURSIVE InsertByOptions(_, _)
InsertByOptions(sorted, x) ==
  IF sorted = <<>> THEN <<x>>
  ELSE IF Len(x.options) < Len(Head(sorted).options) THEN <<x>> \o sorted
  ELSE <<Head(sorted)>> \o InsertByOptions(Tail(sorted), x)

RECURSIVE SortByOptions(_)
SortByOptions(entries) ==
  IF entries = <<>> THEN <<>>
  ELSE InsertByOptions(SortByOptions(SubSeq(entries, 1, Len(entries) - 1)),
                       entries[Len(entries)])

\* Fault injection for C14: a word that is used passes too.
UsableAlways(w, used) == TRUE

\* The test of backtrack on a word: if (used.has(word)) continue
Usable(w, used) == w \notin used

\* Fault injection for C30: a search that takes the first unused word of each
\* entry and never comes back on it.
RECURSIVE backtrackNever(_, _, _)
backtrackNever(ordered, index, used) ==
  \/ index > Len(ordered)
  \/ LET free == SelectSeq(ordered[index].options, LAMBDA w : w \notin used)
     IN  /\ free # <<>>
         /\ backtrackNever(ordered, index + 1, used \cup {free[1]})

\* backtrack(index) returns true: the entries from `index` on can each take
\* a word that is not used. The order of the options does not change this.
RECURSIVE backtrack(_, _, _)
backtrack(ordered, index, used) ==
  \/ index > Len(ordered)
  \/ \E n \in 1..Len(ordered[index].options) :
       /\ Usable(ordered[index].options[n], used)
       /\ backtrack(ordered, index + 1, used \cup {ordered[index].options[n]})

\* The assignments backtrack(index) can leave: at each entry the options are
\* shuffled and the first one with which the search succeeds is kept.
RECURSIVE Assignments(_, _, _, _)
Assignments(ordered, index, used, budget) ==
  IF index > Len(ordered) THEN {[assignment |-> <<>>, left |-> budget]}
  ELSE UNION {
         LET kept == SelectSeq(orderedOptions.arr, LAMBDA w :
                       /\ Usable(w, used)
                       /\ backtrack(ordered, index + 1, used \cup {w}))
         IN  IF kept = <<>> THEN {}
             ELSE {[assignment |-> <<[key |-> ordered[index].candidate.key, word |-> kept[1]]>>
                                     \o rest.assignment,
                    left       |-> rest.left] :
                     rest \in Assignments(ordered, index + 1, used \cup {kept[1]},
                                          orderedOptions.left)} :
         orderedOptions \in shuffle(ordered[index].options, TRUE, budget)}

\* findDistinctAssignment(candidates, availableWords): the assignments it can
\* return; the empty set when it returns null.
findDistinctAssignment(selection, availableWords, budget) ==
  LET ordered == SortByOptions([i \in 1..Len(selection) |->
                                  [candidate |-> selection[i],
                                   options   |-> OptionsOf(selection[i], availableWords)]])
  IN  IF \E i \in 1..Len(ordered) : ordered[i].options = <<>> THEN {}
      ELSE Assignments(ordered, 1, {}, budget)

\* assignment.get(key)
Assigned(assignment, key) ==
  assignment[CHOOSE i \in 1..Len(assignment) : assignment[i].key = key].word

\* ----------------------------------------- Tic-Tac-Word: generateGrid

\* materializeCells(candidates, assignment): the assigned word first, the
\* other matching words sorted behind it.
materializeCells(selection, assignment) ==
  [i \in 1..Len(selection) |->
     LET sortedMatches == sort(selection[i].matchingWords)
         assigned      == Assigned(assignment, selection[i].key)
     IN  [key           |-> selection[i].key,
          attributes    |-> cloneAttributes(selection[i].attributes),
          kind          |-> selection[i].kind,
          ambiguity     |-> selection[i].ambiguity,
          matchingWords |-> <<assigned>> \o SelectSeq(sortedMatches, LAMBDA w : w # assigned)]]

\* Math.max(...pool.map(word => word.len))
MaxLen(pool) == CHOOSE m \in {pool[i].len : i \in 1..Len(pool)} :
                  \A i \in 1..Len(pool) : pool[i].len <= m

\* enforceEasyCenter(cells, pool): the first cell whose length attribute is
\* the longest length of the pool goes to the centre (index 4, the fifth).
enforceEasyCenter(cells, pool) ==
  IF Len(cells) < CELL_COUNT THEN cells
  ELSE LET hits == {i \in 1..Len(cells) : cells[i].attributes.length = MaxLen(pool)}
       IN  IF hits = {} THEN cells
           ELSE LET index == CHOOSE i \in hits : \A j \in hits : i <= j
                IN  IF index = 5 THEN cells ELSE Swap(cells, 5, index)

\* One round of the loop of generateGrid (lines 382-399): what it can end
\* with, a board or nothing, and the moving draws left.
AttemptOutcomes(pool, level, attempted, budget) ==
  LET profile        == DIFFICULTY_PROFILES[level]
      availableWords == {pool[i].word : i \in 1..Len(pool)}
  IN  UNION {
        IF sel.selection = NO_SELECTION
             \/ findDistinctAssignment(sel.selection, availableWords, sel.left) = {}
        THEN {[built |-> FALSE, left |-> sel.left]}
        ELSE UNION {
               {[built     |-> TRUE,
                 cells     |-> IF level = "easy" THEN enforceEasyCenter(cells.arr, pool)
                               ELSE cells.arr,
                 centered  |-> level = "easy" /\ enforceEasyCenter(cells.arr, pool) # cells.arr,
                 firstPass |-> sel.firstPass,
                 selected  |-> [i \in 1..Len(sel.selection) |-> sel.selection[i].kind],
                 left      |-> cells.left] :
                  cells \in shuffle(materializeCells(sel.selection, a.assignment),
                                    TRUE, a.left)} :
               a \in findDistinctAssignment(sel.selection, availableWords, sel.left)} :
        sel \in pickConstraintSet(Eligible(pool, profile), profile,
                                  attempted % MAX_SELECTION_ATTEMPTS, budget)}

\* ------------------------------------------------ Tic-Tac-Word: inputs

\* Nine tagged words of 4 to 7 letters in four groups of words with the
\* same length, first letter, last letter and tag.
Quartets ==
  [words |-> << <<"A", "A", "A", "A">>,
                <<"a", "a", "b", "a">>,
                <<"C", "A", "A", "A", "C">>,
                <<" ", "c", "a", "a", "b", "c", " ">>,
                <<"D", "A", "A", "A", "A", "D">>,
                <<"d", "a", "a", "a", "b", "d">>,
                <<"B", "A", "A", "A", "A", "A", "B">>,
                <<" ", "b", "a", "a", "a", "a", "b", "b", " ">>,
                <<"B", "A", "A", "A", "A", "C", "B">> >>,
   clues |-> << <<"A", ".", " ", "b", "a", "d">>,
                <<"a", ".", " ", "c", "a", "p", "e">>,
                <<"a", ".", " ", "r", "e", "d">>,
                <<"A", ".", " ", "b", "a", "d">>,
                <<"a", ".", " ", "c", "a", "p", "e">>,
                <<"a", ".", " ", "r", "e", "d">>,
                <<"P", "R", ".", " ", "b", "a", "d">>,
                <<"p", "r", ".", " ", "c", "a", "p", "e">>,
                <<"p", "r", ".", " ", "r", "e", "d">> >>]

\* Ten lines of which eight are different words: one word comes twice, in
\* another case and padded, and one line is blank; seven clues.
Repeated ==
  [words |-> << <<"A", "A", "A", "A", "A", "A">>,
                <<"b", "a", "a", "a", "b">>,
                <<"A", "A", "A", "A", "A", "A", "C">>,
                <<" ", "d", "a", "a", "c", " ">>,
                <<"A", "A", "A", "A", "A", "A", "B">>,
                <<"a", "a", "a", "a", "a", "b", "b">>,
                <<"B", "A", "A", "B", "B">>,
                <<" ", "b", "a", "a", "c", "b", " ">>,
                <<" ", "a", "a", "a", "a", "a", "a">>,
                <<" ">> >>,
   clues |-> << <<"P", "R", ".", " ", "b", "a", "d">>,
                <<"p", "r", ".", " ", "c", "a", "p", "e">>,
                <<"p", "r", ".", " ", "r", "e", "d">>,
                <<"P", "R", ".", " ", "b", "a", "d">>,
                <<"p", "r", ".", " ", "c", "a", "p", "e">>,
                <<"p", "r", ".", " ", "r", "e", "d">> >>]

\* Nine words with one tag.
Verbs ==
  [words |-> << <<"A", "A", "A", "A", "A", "A">>,
                <<"b", "a", "a", "a", "b">>,
                <<"A", "A", "A", "A", "A", "A", "C">>,
                <<" ", "d", "a", "a", "c", " ">>,
                <<"A", "A", "A", "A", "A", "A", "B">>,
                <<"a", "a", "a", "a", "a", "b", "b">>,
                <<"B", "A", "A", "B", "B">>,
                <<" ", "b", "a", "a", "c", "b", " ">>,
                <<"C", "A", "A", "A", "B">> >>,
   clues |-> << <<"P", "R", ".", " ", "b", "a", "d">>,
                <<"p", "r", ".", " ", "c", "a", "p", "e">>,
                <<"p", "r", ".", " ", "r", "e", "d">>,
                <<"P", "R", ".", " ", "b", "a", "d">>,
                <<"p", "r", ".", " ", "c", "a", "p", "e">>,
                <<"p", "r", ".", " ", "r", "e", "d">>,
                <<"P", "R", ".", " ", "b", "a", "d">>,
                <<"p", "r", ".", " ", "c", "a", "p", "e">>,
                <<"p", "r", ".", " ", "r", "e", "d">> >>]

\* Nine words of 3 to 6 letters, two of them without a tag.
Mixed ==
  [words |-> << <<"E", "A", "A", "A", "A", "A">>,
                <<"b", "a", "a", "a", "a", "e">>,
                <<"E", "A", "A", "A", "A">>,
                <<" ", "c", "a", "a", "b", " ">>,
                <<"C", "A", "A", "A", "C">>,
                <<"b", "a", "a", "d">>,
                <<"E", "A", "A", "A", "B", "A">>,
                <<" ", "b", "a", "a", "a", "a", "a", " ">>,
                <<"A", "A", "B">> >>,
   clues |-> << <<"A", ".", " ", "b", "a", "d">>,
                <<"p", "r", ".", " ", "c", "a", "p", "e">>,
                <<"b", "a", "r", "e", "d", ".">>,
                <<"P", "R", ".", " ", "b", "a", "d">>,
                <<"p", "r", ".", " ", "c", "a", "p", "e">>,
                <<"a", ".", " ", "r", "e", "d">>,
                <<"A", ".", " ", "b", "a", "d">>,
                <<"b", "r", "e", "a", "d">>,
                <<"p", "r", ".", " ", "r", "e", "d">> >>]

\* Nine words with one first letter; only the last one is tagged.
Untagged ==
  [words |-> << <<"C", "A", "A", "A">>,
                <<"c", "a", "a", "a", "c">>,
                <<"C", "A", "A", "A", "A">>,
                <<" ", "c", "a", "a", "b", "a", " ">>,
                <<"C", "A", "A", "C", "A">>,
                <<"c", "a", "a", "d", "a">>,
                <<"C", "A", "A", "E", "A">>,
                <<" ", "c", "a", "b", "a", "a", " ">>,
                <<"C", "A", "A", "C">> >>,
   clues |-> << <<>>,
                <<"b", "r", "e", "a", "d">>,
                <<"b", "a", "r", "e", "d", ".">>,
                <<>>,
                <<"b", "r", "e", "a", "d">>,
                <<"b", "a", "r", "e", "d", ".">>,
                <<>>,
                <<"b", "r", "e", "a", "d">>,
                <<"a", ".", " ", "r", "e", "d">> >>]

\* The calls of generate that are explored, as pairs of an input and a
\* difficulty.
TTCalls ==
  ({Repeated, Untagged} \X Difficulties)
    \cup ({Quartets, Verbs} \X {"easy", "medium"})
    \cup ({Mixed} \X {"easy"})

\* ------------------------------------------- Tic-Tac-Word: generate

\* success: false, no boards
Failure(level) == [grids |-> <<>>, success |-> FALSE, difficulty |-> level]

InitTT ==
  /\ \E call \in TTCalls :
       /\ ttWordList = call[1].words
       /\ ttClueList = call[1].clues
       /\ difficulty = call[2]
  /\ ttPc = "start"
  /\ processed = <<>>
  /\ gridId = 0
  /\ gridAttempt = 0
  /\ grids = <<>>
  /\ picked = <<>>
  /\ movesLeft = MaxMoves
  /\ ticTac = NoTicTac

\* The tic-tac part of the state while another engine runs.
IdleTT ==
  /\ ttWordList = <<>>
  /\ ttClueList = <<>>
  /\ difficulty = ""
  /\ ttPc = "idle"
  /\ processed = <<>>
  /\ gridId = 0
  /\ gridAttempt = 0
  /\ grids = <<>>
  /\ picked = <<>>
  /\ movesLeft = 0
  /\ ticTac = NoTicTac

\* Lines 405-415: processInput; fewer than 9 words return at once.
ProcessInput ==
  /\ ttPc = "start"
  /\ processed' = processInput(ttWordList, ttClueList)
  /\ IF Len(processed') < CELL_COUNT
     THEN /\ ticTac' = Failure(difficulty)
          /\ ttPc' = "done"
     ELSE /\ ttPc' = "grids"
          /\ UNCHANGED ticTac
  /\ UNCHANGED <<ttWordList, ttClueList, difficulty, gridId, gridAttempt, grids,
                 picked, movesLeft>>
  /\ UNCHANGED ttFrame

\* One round of the attempt loop of generateGrid for board gridId: a board is
\* pushed and the next board starts, or the attempt counter advances.
GridAttempt ==
  /\ ttPc = "grids"
  /\ gridId < GRID_COUNT
  /\ Len(Eligible(processed, DIFFICULTY_PROFILES[difficulty])) >= CELL_COUNT
  /\ gridAttempt < MAX_GRID_ATTEMPTS
  /\ \E outcome \in AttemptOutcomes(processed, difficulty, gridAttempt, movesLeft) :
       /\ movesLeft' = outcome.left
       /\ IF outcome.built
          THEN /\ grids' = Append(grids, [id |-> gridId, cells |-> outcome.cells])
               /\ picked' = Append(picked, [boost     |-> boost(gridAttempt % MAX_SELECTION_ATTEMPTS),
                                            centered  |-> outcome.centered,
                                            firstPass |-> outcome.firstPass,
                                            selected  |-> outcome.selected])
               /\ gridId' = gridId + 1
               /\ gridAttempt' = 0
          ELSE /\ gridAttempt' = gridAttempt + 1
               /\ UNCHANGED <<grids, picked, gridId>>
  /\ UNCHANGED <<ttWordList, ttClueList, difficulty, ttPc, processed, ticTac>>
  /\ UNCHANGED ttFrame

\* Fault injection for C16: the boards built so far returned with the failure.
GridFailedPartial ==
  /\ ttPc = "grids"
  /\ gridId < GRID_COUNT
  /\ \/ Len(Eligible(processed, DIFFICULTY_PROFILES[difficulty])) < CELL_COUNT
     \/ gridAttempt >= MAX_GRID_ATTEMPTS
  /\ ticTac' = [grids |-> grids, success |-> FALSE, difficulty |-> difficulty]
  /\ ttPc' = "done"
  /\ UNCHANGED <<ttWordList, ttClueList, difficulty, processed, gridId, gridAttempt,
                 grids, picked, movesLeft>>
  /\ UNCHANGED ttFrame

\* generateGrid returns null (too few candidates, line 378, or no attempt
\* left, line 401): generate returns the failure (lines 420-430).
GridFailed ==
  /\ ttPc = "grids"
  /\ gridId < GRID_COUNT
  /\ \/ Len(Eligible(processed, DIFFICULTY_PROFILES[difficulty])) < CELL_COUNT
     \/ gridAttempt >= MAX_GRID_ATTEMPTS
  /\ ticTac' = Failure(difficulty)
  /\ ttPc' = "done"
  /\ UNCHANGED <<ttWordList, ttClueList, difficulty, processed, gridId, gridAttempt,
                 grids, picked, movesLeft>>
  /\ UNCHANGED ttFrame

\* Lines 434-438: the four boards are returned.
ReturnGrids ==
  /\ ttPc = "grids"
  /\ gridId = GRID_COUNT
  /\ ticTac' = [grids |-> grids, success |-> TRUE, difficulty |-> difficulty]
  /\ ttPc' = "done"
  /\ UNCHANGED <<ttWordList, ttClueList, difficulty, processed, gridId, gridAttempt,
                 grids, picked, movesLeft>>
  /\ UNCHANGED ttFrame

NextTT ==
  \/ ProcessInput
  \/ GridAttempt
  \/ GridFailed
  \/ ReturnGrids

\* ------------------------------------------------- the App: result store

Tabs == {"crossword", "dga", "tictac"}

\* type CrosswordMode = 'standard' | 'deduction'
Modes == {"standard", "deduction"}

\* Two widths of the canvas container, as the window is resized.
Widths == {"narrow", "wide"}

\* An object under construction: its type, the names of its references and
\* the objects they lead to.
Node(type, fields, kids) == [type |-> type, fields |-> fields, kids |-> kids]

\* An object without references: an object or array of primitive values.
Leaf(type) == Node(type, <<>>, <<>>)

\* An array whose n items are built alike.
ArrayOf(type, field, n, item) ==
  Node(type, [i \in 1..n |-> field], [i \in 1..n |-> item])

\* The result of CrosswordGenerator.generate for a grid of side rows and
\* with words placed words: grid, placedWords and unusedWords.
GenerationResult(side, words) ==
  Node("GenerationResult", <<"grid", "placedWords", "unusedWords">>,
       <<ArrayOf("Grid", "row", side, ArrayOf("Row", "cell", side, Leaf("CellData"))),
         ArrayOf("PlacedWords", "word", words, Leaf("PlacedWord")),
         Leaf("UnusedWords")>>)

\* The result of DGAGenerator.generate with n clues: clues, each with its
\* matchingWords, and wordBank.
DGAResult(n) ==
  Node("DGAResult", <<"clues", "wordBank">>,
       <<ArrayOf("Clues", "clue", n,
                 Node("DGAClue", <<"matchingWords">>, <<Leaf("Words")>>)),
         Leaf("WordBank")>>)

\* The result of TicTacGenerator.generate with n boards of m cells: a cell
\* has its attributes object and its matchingWords.
TicTacResult(n, m) ==
  Node("TicTacResult", <<"grids">>,
       <<ArrayOf("Grids", "grid", n,
                 Node("TicTacGrid", <<"cells">>,
                      <<ArrayOf("Cells", "cell", m,
                                Node("TicTacCell", <<"attributes", "matchingWords">>,
                                     <<Leaf("Attributes"), Leaf("Words")>>))>>))>>)

\* Allocation: the objects of a tree are added to the heap, the children
\* before their parent; the result is the new heap and the object of the root.
RECURSIVE Allocate(_, _), AllocateKids(_, _, _)
Allocate(h, tree) ==
  LET kids == AllocateKids(h, tree.kids, 1)
  IN  [heap |-> Append(kids.heap, [type |-> tree.type, fields |-> tree.fields,
                                   refs |-> kids.refs]),
       id   |-> Len(kids.heap) + 1]

AllocateKids(h, kids, n) ==
  IF n > Len(kids) THEN [heap |-> h, refs |-> <<>>]
  ELSE LET first == Allocate(h, kids[n])
           rest  == AllocateKids(first.heap, kids, n + 1)
       IN  [heap |-> rest.heap, refs |-> <<first.id>> \o rest.refs]

\* The references cloneCrosswordResult follows to a new object: the grid,
\* its rows and cells, placedWords and its entries, unusedWords.
CrosswordCopies ==
  {<<"GenerationResult", "grid">>, <<"Grid", "row">>, <<"Row", "cell">>,
   <<"GenerationResult", "placedWords">>, <<"PlacedWords", "word">>,
   <<"GenerationResult", "unusedWords">>}

\* The references cloneDgaResult follows to a new object: clues, each clue
\* and its matchingWords, wordBank.
DgaCopies ==
  {<<"DGAResult", "clues">>, <<"Clues", "clue">>, <<"DGAClue", "matchingWords">>,
   <<"DGAResult", "wordBank">>}

\* The references cloneTicTacResult follows to a new object: grids, each
\* grid, its cells, each cell and its matchingWords. The other fields of a
\* cell come from the spread { ...cell }: the reference is copied.
TicTacCopies ==
  {<<"TicTacResult", "grids">>, <<"Grids", "grid">>, <<"TicTacGrid", "cells">>,
   <<"Cells", "cell">>, <<"TicTacCell", "matchingWords">>}

\* A copy of an object: a new object of the same type whose references lead
\* to copies where the clone function builds a new object or array, and to
\* the same object where it copies the reference.
RECURSIVE Clone(_, _, _), CloneRefs(_, _, _, _)
Clone(h, id, copies) ==
  LET kids == CloneRefs(h, id, copies, 1)
  IN  [heap |-> Append(kids.heap, [type |-> h[id].type, fields |-> h[id].fields,
                                   refs |-> kids.refs]),
       id   |-> Len(kids.heap) + 1]

CloneRefs(h, id, copies, n) ==
  IF n > Len(h[id].refs) THEN [heap |-> h, refs |-> <<>>]
  ELSE LET first == IF <<h[id].type, h[id].fields[n]>> \in copies
                    THEN Clone(h, h[id].refs[n], copies)
                    ELSE [heap |-> h, id |-> h[id].refs[n]]
           rest  == CloneRefs(first.heap, id, copies, n + 1)
       IN  [heap |-> rest.heap, refs |-> <<first.id>> \o rest.refs]

\* Fault injection for C25: a copy built from the listed fields only, where
\* the clone functions spread the object: a reference that is not listed is
\* left out of the copy.
RECURSIVE CloneListed(_, _, _), CloneListedRefs(_, _, _, _)
CloneListed(h, id, copies) ==
  LET kids   == CloneListedRefs(h, id, copies, 1)
      listed == SelectSeq(h[id].fields, LAMBDA f : <<h[id].type, f>> \in copies)
  IN  [heap |-> Append(kids.heap, [type |-> h[id].type, fields |-> listed,
                                   refs |-> kids.refs]),
       id   |-> Len(kids.heap) + 1]

CloneListedRefs(h, id, copies, n) ==
  IF n > Len(h[id].refs) THEN [heap |-> h, refs |-> <<>>]
  ELSE IF <<h[id].type, h[id].fields[n]>> \in copies
  THEN LET first == CloneListed(h, h[id].refs[n], copies)
           rest  == CloneListedRefs(first.heap, id, copies, n + 1)
       IN  [heap |-> rest.heap, refs |-> <<first.id>> \o rest.refs]
  ELSE CloneListedRefs(h, id, copies, n + 1)

cloneTicTacFromFields(h, res) == CloneListed(h, res, TicTacCopies)

cloneCrosswordResult(h, res) == Clone(h, res, CrosswordCopies)

cloneDgaResult(h, res) == Clone(h, res, DgaCopies)

cloneTicTacResult(h, res) == Clone(h, res, TicTacCopies)

\* The clone function of a tab.
CloneOf(tab, h, res) ==
  CASE tab = "crossword" -> cloneCrosswordResult(h, res)
    [] tab = "dga"       -> cloneDgaResult(h, res)
    [] tab = "tictac"    -> cloneTicTacResult(h, res)

\* setResult, setDgaResult, setTicTacResult called with a copy of value, as
\* the generate functions and the effect of activeTab call them: the state
\* gets a copy of the copy.
StoreCopy(tab, h, value) ==
  LET first == CloneOf(tab, h, value)
  IN  CloneOf(tab, first.heap, first.id)

\* The App after mounting: no result, the crossword tab.
InitApp ==
  /\ heap = <<>>
  /\ activeTab = "crossword"
  /\ handed = [t \in Tabs |-> 0]
  /\ stored = [t \in Tabs |-> 0]
  /\ stores = 0
  /\ showSolution = FALSE
  /\ mode = "standard"
  /\ containerWidth = "wide"

\* The result of the generator of a tab is stored.
Generated(tab, tree) ==
  /\ stores < MaxStores
  /\ LET res  == Allocate(heap, tree)
         kept == StoreCopy(tab, res.heap, res.id)
     IN  /\ heap' = kept.heap
         /\ handed' = [handed EXCEPT ![tab] = res.id]
         /\ stored' = [stored EXCEPT ![tab] = kept.id]
  /\ stores' = stores + 1
  /\ UNCHANGED activeTab
  /\ UNCHANGED viewVars
  /\ UNCHANGED appFrame

\* Generate on the crossword tab.
generateCrossword ==
  /\ activeTab = "crossword"
  /\ \E side \in 1..MaxSide, words \in 0..MaxEntries :
       Generated("crossword", GenerationResult(side, words))

\* Generate on the DGA tab; a failure has no clues.
generateDGA ==
  /\ activeTab = "dga"
  /\ \E n \in 0..MaxEntries : Generated("dga", DGAResult(n))

\* Generate on the Tic-Tac-Word tab; a failure has no boards.
generateTicTac ==
  /\ activeTab = "tictac"
  /\ \E n \in {0, MaxEntries}, m \in 1..MaxEntries :
       /\ n = 0 => m = 1
       /\ Generated("tictac", TicTacResult(n, m))

\* The user changes the tab; the effect of activeTab stores a copy of the
\* result of the new tab when there is one.
SwitchTab ==
  \E tab \in Tabs \ {activeTab} :
    /\ activeTab' = tab
    /\ IF stored[tab] # 0
       THEN /\ stores < MaxStores
            /\ LET kept == StoreCopy(tab, heap, stored[tab])
               IN  /\ heap' = kept.heap
                   /\ handed' = [handed EXCEPT ![tab] = stored[tab]]
                   /\ stored' = [stored EXCEPT ![tab] = kept.id]
            /\ stores' = stores + 1
       ELSE UNCHANGED <<heap, handed, stored, stores>>
    /\ UNCHANGED viewVars
    /\ UNCHANGED appFrame

\* The user empties the word list; the effect of inputWords sets the three
\* results to null.
ClearWords ==
  /\ \E tab \in Tabs : stored[tab] # 0
  /\ stored' = [t \in Tabs |-> 0]
  /\ UNCHANGED <<heap, activeTab, handed, stores>>
  /\ UNCHANGED viewVars
  /\ UNCHANGED appFrame

\* The show-solution checkbox changes; the drawing effect draws the result of
\* the active tab again, which reads it.
ToggleSolution ==
  /\ showSolution' = ~showSolution
  /\ UNCHANGED <<heap, activeTab, handed, stored, stores, mode, containerWidth>>
  /\ UNCHANGED appFrame

\* One of the two mode buttons sets another crossword mode; the drawing
\* effect draws again.
SetMode ==
  /\ \E m \in Modes \ {mode} : mode' = m
  /\ UNCHANGED <<heap, activeTab, handed, stored, stores, showSolution, containerWidth>>
  /\ UNCHANGED appFrame

\* The window is resized: render, the listener of 'resize', reads the new
\* width of the container and draws again.
Resize ==
  /\ \E w \in Widths \ {containerWidth} : containerWidth' = w
  /\ UNCHANGED <<heap, activeTab, handed, stored, stores, showSolution, mode>>
  /\ UNCHANGED appFrame

NextApp ==
  \/ generateCrossword
  \/ generateDGA
  \/ generateTicTac
  \/ SwitchTab
  \/ ClearWords
  \/ ToggleSolution
  \/ SetMode
  \/ Resize

\* ------------------------------------------------------ specifications

vars == <<dgaVars, cwVars, ttVars, appVars>>

Init == InitDGA /\ IdleCW /\ IdleTT /\ InitApp

Next == NextDGA

\* DGAGenerator.generate, for every word list and limit of the bounds.
Spec == Init /\ [][Next]_vars

InitOfCW == InitCW /\ IdleDGA /\ IdleTT /\ InitApp

NextOfCW == NextCW

\* CrosswordGenerator.generate, for every input and grid size of the bounds.
SpecCW == InitOfCW /\ [][NextOfCW]_vars

InitOfTT == InitTT /\ IdleDGA /\ IdleCW /\ InitApp

NextOfTT == NextTT

\* TicTacGenerator.generate, for every input list and difficulty.
SpecTT == InitOfTT /\ [][NextOfTT]_vars

InitOfApp == InitApp /\ IdleDGA /\ IdleCW /\ IdleTT

NextOfApp == NextApp

\* The App, for every shape of result of the bounds.
SpecApp == InitOfApp /\ [][NextOfApp]_vars

InitOfAny == Init \/ InitOfCW \/ InitOfTT

NextOfAny == NextDGA \/ NextCW \/ NextTT

\* A call of generate of one of the engines is under way.
Running ==
  \/ pc \in {"start", "map", "loop"}
  \/ cwPc \in {"start", "first", "rest"}
  \/ ttPc \in {"start", "grids"}

\* One of the three engines at work, its call running to its end. generate
\* is synchronous code: a call under way takes its next step. This is weak
\* fairness of the steps of the running call, written out with Running where
\* WF has ENABLED; whether the caller calls again is left open.
SpecRun ==
  /\ InitOfAny
  /\ [][NextOfAny]_vars
  /\ ([]<>(~Running) \/ []<><<Running>>_vars)

\* ------------------------------------------------- DGA: reading a result

\* generate has returned.
Returned == pc = "done"

\* generate has returned a result with success: true.
Succeeded == pc = "done" /\ result.success

\* generate has returned after the check of line 154 let the pool pass.
Built == pc = "done" /\ Len(uniqueWords) >= MIN_WORDS

\* The distinct non-empty words of the input, upper-cased and trimmed.
UniqueInputs == SeqToSet(Sanitized(wordList))

\* The constraint type a clue shows: the side of its open run and the number
\* of its fixed slots.
ClueType(clue) ==
  IF clue.infiniteSide = "trailing"
  THEN types[clue.shortLeadingSlots + 1]
  ELSE types[clue.shortTrailingSlots + 4]

ClueMatches(clue, w) == getChar(w, ClueType(clue)) = clue.anchorChar

\* The words of remW that clue i matches.
Hit(clues, i, remW) == {w \in remW : ClueMatches(clues[i], w)}

\* The clues of elimination state s that match exactly one remaining word.
EliminationSteps(clues, s) ==
  {i \in s.clues : Cardinality(Hit(clues, i, s.words)) = 1}

\* The states one elimination step leads to from s.
Eliminate(clues, s) ==
  {[clues |-> s.clues \ {i}, words |-> s.words \ Hit(clues, i, s.words)] :
     i \in EliminationSteps(clues, s)}

\* The states the elimination procedure can be in after at most n steps,
\* whatever clue it picks at each step.
RECURSIVE EliminationStates(_, _, _)
EliminationStates(clues, frontier, n) ==
  IF n = 0 \/ frontier = {} THEN frontier
  ELSE frontier
       \cup EliminationStates(clues, UNION {Eliminate(clues, s) : s \in frontier}, n - 1)

Deadlock(clues, s) == s.words # {} /\ EliminationSteps(clues, s) = {}

AmbiguousClues == {i \in 1..Len(result.clues) : result.clues[i].isAmbiguous}

AmbiguousWords == {result.clues[i].word : i \in AmbiguousClues}

\* The words of the pool without a constraint of overlapScore 1.
NoUnique == {w \in SeqToSet(uniqueWords) : constraintsByWord[w].unique = <<>>}

\* What the fallback pass with `required` = r returns.
FallbackSelection(r) ==
  LET forced == CHOOSE f \in computeForcedAmbiguousSet(r, FALSE, ambiguousComponents, 0) :
                  TRUE
  IN  (CHOOSE b \in attemptBuild(forced.arr, r, FALSE, uniqueWords, constraintsByWord,
                                 bucketWordMembers, 0) : TRUE).arr

\* ------------------------------------------------------- DGA: the claims

\* C1: for every result with success: true, the elimination procedure over
\* the returned clues and the returned wordBank, whatever clue it picks among
\* those that match exactly one unresolved word, never reaches a state where
\* words remain and no remaining clue matches exactly one of them.
C1_Solvable ==
  Succeeded =>
    \A s \in EliminationStates(result.clues,
                               {[clues |-> 1..Len(result.clues),
                                 words |-> SeqToSet(result.wordBank)]},
                               Len(result.clues)) :
      ~Deadlock(result.clues, s)

\* A returned puzzle with a clue that matches several words of the bank, so
\* that the order of the elimination matters.
C1_Witness ==
  /\ Succeeded
  /\ \E i \in 1..Len(result.clues) :
       Cardinality(Hit(result.clues, i, SeqToSet(result.wordBank))) >= 2

\* C2: for every result with success: true, every word of wordBank is the
\* word of exactly one clue, every clue's word is in wordBank, and there are
\* as many clues as words.
C2_Bijection ==
  Succeeded =>
    /\ Len(result.clues) = Len(result.wordBank)
    /\ \A k \in 1..Len(result.wordBank) :
         Cardinality({i \in 1..Len(result.clues) :
                        result.clues[i].word = result.wordBank[k]}) = 1
    /\ \A i \in 1..Len(result.clues) : result.clues[i].word \in SeqToSet(result.wordBank)

\* A returned puzzle with a clue whose word is not the first of the words it
\* matches.
C2_Witness ==
  /\ Succeeded
  /\ \E i \in 1..Len(result.clues) :
       /\ Len(result.clues[i].matchingWords) >= 2
       /\ result.clues[i].matchingWords[1] # result.clues[i].word

\* C3 as stated: with at least 6 unique words in the pool the call ends with
\* success: true.
C3_AlwaysSucceeds == Built => result.success

\* C3, amended: with at least 6 unique words in the pool the call ends with
\* success: true whenever some pass of the fallback (required from the target
\* down to 0) builds a selection; otherwise it can end with success: false,
\* no clue, the pool as wordBank and the message of line 495.
C3_FallbackDecides ==
  Built =>
    /\ (\E r \in 0..TARGET : FallbackSelection(r) # NO_SELECTION) => result.success
    /\ ~result.success =>
         /\ result.clues = <<>>
         /\ result.wordBank = uniqueWords
         /\ result.message = NoPathMessage

\* A puzzle returned by the last pass of the fallback, required = 0.
C3_Witness == Succeeded /\ ~randomize /\ required = 0

\* C4 as stated: a result with success: true has at most 3 ambiguous clues.
C4_AtMostQuota == Succeeded => Cardinality(AmbiguousClues) <= QUOTA

\* C4, amended: at most 3 words are forced into an ambiguous constraint, and
\* in a result with success: true every ambiguous clue belongs to a forced
\* word or to a word without a constraint of overlapScore 1: the ambiguous
\* clues are at most 3 plus the number of such words.
C4_ForcedWithinQuota ==
  /\ Cardinality(forcedSet) <= QUOTA
  /\ Succeeded =>
       /\ AmbiguousWords \subseteq forcedSet \cup NoUnique
       /\ Cardinality(AmbiguousClues) <= QUOTA + Cardinality(NoUnique)

\* A returned puzzle with more than 3 ambiguous clues.
C4_Witness == Succeeded /\ Cardinality(AmbiguousClues) > QUOTA

\* C5 as stated: a result with success: true has at least min(3, P)
\* ambiguous clues.
C5_AtLeastTarget == Succeeded => Cardinality(AmbiguousClues) >= TARGET

\* C5, amended: a result with success: true has at least as many ambiguous
\* clues as the attempt that built it required: min(3, P) in the generator
\* loop, the current `required` in the fallback loop.
C5_AtLeastRequired ==
  Succeeded =>
    /\ Cardinality(AmbiguousClues) >= minimumRequired
    /\ minimumRequired = IF randomize THEN TARGET ELSE required

\* A puzzle returned by the fallback with fewer ambiguous clues than min(3, P).
C5_Witness == Succeeded /\ ~randomize /\ Cardinality(AmbiguousClues) < TARGET

\* C6 as stated: in a result with success: true, of every component of size
\* k at most k - 1 words have an ambiguous clue.
C6_AnchorPerComponent ==
  Succeeded =>
    \A k \in 1..Len(ambiguousComponents) :
      Cardinality(SeqToSet(ambiguousComponents[k]) \cap AmbiguousWords)
        <= Len(ambiguousComponents[k]) - 1

\* C6, amended: of every component of size k at most k - 1 words are forced
\* into an ambiguous constraint, and in a result with success: true a word
\* of the component that is not forced has an ambiguous clue only if it has
\* no constraint of overlapScore 1.
C6_ForcedPerComponent ==
  \A k \in 1..Len(ambiguousComponents) :
    LET component == SeqToSet(ambiguousComponents[k])
    IN  /\ Cardinality(component \cap forcedSet) <= Len(ambiguousComponents[k]) - 1
        /\ Succeeded =>
             (component \cap AmbiguousWords) \ NoUnique \subseteq forcedSet

\* A returned puzzle in which every word of a component has an ambiguous clue.
C6_Witness ==
  /\ Succeeded
  /\ \E k \in 1..Len(ambiguousComponents) :
       SeqToSet(ambiguousComponents[k]) \subseteq AmbiguousWords

\* C7: with fewer than 6 unique non-empty words after upper-casing, trimming
\* and deduplication, no constraint is built and the call returns success:
\* false, no clue and the message of line 155; and every result with
\* success: false has no clue.
C7_AllOrNothing ==
  /\ Cardinality(UniqueInputs) < MIN_WORDS =>
       /\ constraintsByWord = <<>>
       /\ Returned => /\ ~result.success
                      /\ result.clues = <<>>
                      /\ result.message = TooFewMessage
  /\ (Returned /\ ~result.success) => result.clues = <<>>

\* A refused list of at least 6 non-empty lines, fewer than 6 of them distinct.
C7_Witness ==
  /\ Returned
  /\ Len(Sanitized(wordList)) >= MIN_WORDS
  /\ Cardinality(UniqueInputs) < MIN_WORDS

\* C8: with more unique words than `limit`, wordBank has exactly `limit`
\* elements, all of them distinct normalized words of the input, and every
\* clue's word and matchingWords are in wordBank.
C8_SubsetOfLimit ==
  (Returned /\ Cardinality(UniqueInputs) > limit) =>
    /\ Len(result.wordBank) = limit
    /\ Cardinality(SeqToSet(result.wordBank)) = limit
    /\ SeqToSet(result.wordBank) \subseteq UniqueInputs
    /\ \A i \in 1..Len(result.clues) :
         /\ result.clues[i].word \in SeqToSet(result.wordBank)
         /\ SeqToSet(result.clues[i].matchingWords) \subseteq SeqToSet(result.wordBank)

\* A puzzle returned for a list with more unique words than the limit.
C8_Witness == Succeeded /\ Cardinality(UniqueInputs) > limit

\* ------------------------------------------------- crossword: the claims

\* The cells a placed word covers, with the letter it has there.
Covers(w) ==
  {[r  |-> RowOf(w.row, w.direction, i), c |-> ColOf(w.col, w.direction, i),
    ch |-> w.word[i + 1]] : i \in 0..(Len(w.word) - 1)}

\* C9: every placed word agrees with the working grid on every cell it
\* covers, at every step of generate, so no placement has overwritten a
\* letter with another one; and in the returned grid every cell covered by a
\* returned placed word is active and carries the letter of that word there.
C9_CharacterConsistency ==
  /\ \A p \in 1..Len(placedWords) :
       \A cell \in Covers(placedWords[p]) : grid[cell.r][cell.c] = cell.ch
  /\ cwPc = "done" =>
       \A p \in 1..Len(generated.placedWords) :
         \A cell \in Covers(generated.placedWords[p]) :
           /\ generated.grid[cell.r][cell.c].isActive
           /\ generated.grid[cell.r][cell.c].char = cell.ch

\* A returned grid with a cell that two placed words cover.
C9_Witness ==
  /\ cwPc = "done"
  /\ \E p, q \in 1..Len(generated.placedWords) :
       /\ p # q
       /\ \E cell \in Covers(generated.placedWords[p]) :
            cell \in Covers(generated.placedWords[q])

\* C10: when a word is placed, every cell it fills that was empty before has
\* its two perpendicular neighbours (above and below for an across word,
\* left and right for a down word) empty or out of bounds, in the grid as it
\* was before the placement.
C10_NoSilentAdjacency ==
  [][Len(placedWords') > Len(placedWords) =>
       LET w == placedWords'[Len(placedWords')]
       IN  \A cell \in Covers(w) :
             grid[cell.r][cell.c] = NULL =>
               IF w.direction = "across"
               THEN /\ ~Occupied(cell.r - 1, cell.c, grid, gridSize)
                    /\ ~Occupied(cell.r + 1, cell.c, grid, gridSize)
               ELSE /\ ~Occupied(cell.r, cell.c - 1, grid, gridSize)
                    /\ ~Occupied(cell.r, cell.c + 1, grid, gridSize)]_vars

\* Three words placed and a fourth left out although it shares a letter with
\* a placed word: every position tried for it was refused.
C10_Witness ==
  /\ Len(placedWords) >= 3
  /\ \E u \in 1..Len(unusedWords) :
       \E p \in 1..Len(placedWords) : Tries(unusedWords[u], <<placedWords[p]>>) # <<>>

\* The distinct start cells of the returned placed words.
Starts ==
  {[r |-> generated.placedWords[p].row, c |-> generated.placedWords[p].col] :
     p \in 1..Len(generated.placedWords)}

StartOf(w) == [r |-> w.row, c |-> w.col]

\* Cell a comes before cell b when the grid is read row by row.
RowMajorBefore(a, b) == a.r < b.r \/ (a.r = b.r /\ a.c < b.c)

\* C11: in a returned crossword the clue numbers are exactly 1..m for the m
\* distinct start cells; a word whose start cell comes earlier in row-major
\* order has the smaller number; two words have the same number exactly when
\* they start at the same cell; and a grid cell carries a number exactly when
\* it is a start cell, the number of the words that start there.
C11_Numbering ==
  cwPc = "done" =>
    LET pw == generated.placedWords
    IN  /\ {pw[p].number : p \in 1..Len(pw)} = 1..Cardinality(Starts)
        /\ \A p, q \in 1..Len(pw) :
             /\ RowMajorBefore(StartOf(pw[p]), StartOf(pw[q])) <=> pw[p].number < pw[q].number
             /\ StartOf(pw[p]) = StartOf(pw[q]) <=> pw[p].number = pw[q].number
        /\ \A r \in 0..(gridSize - 1) : \A c \in 0..(gridSize - 1) :
             /\ generated.grid[r][c].number # 0 <=> [r |-> r, c |-> c] \in Starts
             /\ \A p \in 1..Len(pw) :
                  StartOf(pw[p]) = [r |-> r, c |-> c] =>
                    generated.grid[r][c].number = pw[p].number

\* A returned crossword with two words that start at one cell, a start cell
\* in a later row and a start cell in an earlier column of that later row.
C11_Witness ==
  /\ cwPc = "done"
  /\ \E p, q \in 1..Len(generated.placedWords) :
       /\ p # q
       /\ StartOf(generated.placedWords[p]) = StartOf(generated.placedWords[q])
  /\ \E a, b \in Starts : a.r < b.r /\ b.c < a.c

\* C12: placedWords never holds two entries with the same word text.
C12_PlacedOnce ==
  \A p, q \in 1..Len(placedWords) :
    p # q => placedWords[p].word # placedWords[q].word

\* How often x occurs in the sequence s.
Count(s, x) == Cardinality({i \in 1..Len(s) : s[i] = x})

\* The chosen anchor does not fit the grid.
AnchorTooLong == inputs # <<>> /\ Len(sortedInputs[1].word) > gridSize

\* C13: a returned crossword has no placed word only if the input was empty
\* or the anchor is longer than the grid; when the anchor is too long every
\* input word is unused and no cell is active; otherwise the anchor is the
\* first placed word, across, in the middle row and centred, and every input
\* entry is either placed or unused.
C13_FailureSemantics ==
  cwPc = "done" =>
    LET pw     == generated.placedWords
        unused == generated.unusedWords
        texts  == {inputs[i].word : i \in 1..Len(inputs)}
    IN  /\ pw = <<>> => (inputs = <<>> \/ AnchorTooLong)
        /\ AnchorTooLong =>
             /\ pw = <<>>
             /\ \A w \in texts :
                  Count(unused, w) = Count([i \in 1..Len(inputs) |-> inputs[i].word], w)
             /\ Len(unused) = Len(inputs)
             /\ \A r \in 0..(gridSize - 1) : \A c \in 0..(gridSize - 1) :
                  ~generated.grid[r][c].isActive /\ generated.grid[r][c].char = ""
        /\ (inputs # <<>> /\ ~AnchorTooLong) =>
             /\ pw # <<>>
             /\ pw[1].word = sortedInputs[1].word
             /\ pw[1].direction = "across"
             /\ 2 * pw[1].row \in {gridSize - 1, gridSize - 2}
             /\ 2 * pw[1].col \in {gridSize - Len(pw[1].word), gridSize - Len(pw[1].word) - 1}
             /\ \A w \in texts :
                  Count([p \in 1..Len(pw) |-> pw[p].word], w) + Count(unused, w)
                    = Count([i \in 1..Len(inputs) |-> inputs[i].word], w)
             /\ Len(pw) + Len(unused) = Len(inputs)

\* The anchor was too long for the grid although another word would fit, and
\* everything came back unused.
C13_Witness ==
  /\ cwPc = "done"
  /\ AnchorTooLong
  /\ \E i \in 1..Len(inputs) : Len(inputs[i].word) <= gridSize
  /\ Len(generated.unusedWords) >= 2

\* --------------------------------------------- Tic-Tac-Word: the claims

\* generate has returned success: true.
TTSucceeded == ttPc = "done" /\ ticTac.success

\* The boards built so far and, once generate has returned, the boards of
\* the result.
Boards == SeqToSet(grids) \cup SeqToSet(ticTac.grids)

\* The kinds of the cells of a board.
KindsOf(board) == [i \in 1..Len(board.cells) |-> board.cells[i].kind]

\* The word a cell is assigned: the first of its matchingWords.
AssignedWord(cell) == cell.matchingWords[1]

\* The different words of the input after upper-casing and trimming.
UniqueWords ==
  {trim(toUpperCase(ttWordList[i])) : i \in 1..Len(ttWordList)} \ {<<>>}

\* The tag the clue list gives a word: that of the first line with the word.
TagOf(word) ==
  LET at == CHOOSE i \in 1..Len(ttWordList) :
              /\ trim(toUpperCase(ttWordList[i])) = word
              /\ \A j \in 1..(i - 1) : trim(toUpperCase(ttWordList[j])) # word
  IN  IF at <= Len(ttClueList) THEN getPOS(ttClueList[at]) ELSE NoPos

\* The word has every attribute the constraint sets.
Satisfies(word, attributes) ==
  /\ attributes.length # 0 => Len(word) = attributes.length
  /\ attributes.start # "" => word[1] = attributes.start
  /\ attributes.end # "" => word[Len(word)] = attributes.end
  /\ attributes.pos # NoPos => TagOf(word) = attributes.pos

\* C14: in every board, as built (after the cells were shuffled and after
\* the centre swap of the easy mode) and as returned, the assigned words of
\* the cells are words of the input, pairwise different, and each one has the
\* attributes of the constraint of its own cell.
C14_DistinctAssignment ==
  \A board \in Boards :
    /\ \A i, j \in 1..Len(board.cells) :
         i # j => AssignedWord(board.cells[i]) # AssignedWord(board.cells[j])
    /\ \A i \in 1..Len(board.cells) :
         /\ AssignedWord(board.cells[i]) \in UniqueWords
         /\ Satisfies(AssignedWord(board.cells[i]), board.cells[i].attributes)

\* An easy result with a board whose centre cell was put there by the centre
\* swap: it holds the longest length of the input. The cells of the board
\* are no longer in the order of the selection, and some cell of it has a
\* choice of words.
C14_Witness ==
  /\ TTSucceeded
  /\ difficulty = "easy"
  /\ \E b \in 1..Len(ticTac.grids) :
       LET cells == ticTac.grids[b].cells
       IN  /\ picked[b].centered
           /\ cells[5].attributes.length = MaxLen(processed)
           /\ KindsOf(ticTac.grids[b]) # picked[b].selected
           /\ \E i \in 1..Len(cells) : Len(cells[i].matchingWords) >= 2

\* C15: when the input has fewer than 9 different non-empty words, generate
\* returns success: false with no boards as soon as the input is processed: no
\* board was attempted or built and no random draw was made.
C15_TooFewWords ==
  (ttPc \notin {"start", "idle"} /\ Cardinality(UniqueWords) < 9) =>
    /\ ttPc = "done"
    /\ ~ticTac.success
    /\ ticTac.grids = <<>>
    /\ grids = <<>>
    /\ gridId = 0
    /\ gridAttempt = 0
    /\ movesLeft = MaxMoves

\* Ten input lines with only eight different words have been turned down.
C15_Witness ==
  /\ ttPc = "done"
  /\ Len(ttWordList) >= 9
  /\ Cardinality(UniqueWords) < 9
  /\ ~ticTac.success

\* C16: a returned result is all or nothing. With success: true it has 4
\* boards with the ids 0 to 3, each of 9 cells with pairwise different keys;
\* otherwise it has no board. It is a success exactly when all four boards
\* were assembled: when a board is not assembled within its 50 attempts the
\* result is the failure, whatever was built before.
C16_AllOrNothing ==
  ttPc = "done" =>
    /\ ticTac.success =>
         /\ Len(ticTac.grids) = 4
         /\ \A b \in 1..Len(ticTac.grids) :
              /\ ticTac.grids[b].id = b - 1
              /\ Len(ticTac.grids[b].cells) = 9
              /\ \A i, j \in 1..Len(ticTac.grids[b].cells) :
                   i # j => ticTac.grids[b].cells[i].key # ticTac.grids[b].cells[j].key
    /\ ~ticTac.success => ticTac.grids = <<>>
    /\ ticTac.success <=> Len(grids) = 4

\* A failure after the 50 attempts of a board, with a board built before.
C16_Witness ==
  /\ ttPc = "done"
  /\ ~ticTac.success
  /\ Len(grids) >= 1
  /\ gridAttempt = 50

\* C17: every cell of every board has a kind the difficulty allows: an easy
\* board has only length, start and end constraints, a medium board has no
\* pos_length and no start_end constraint.
C17_AllowedKinds ==
  \A board \in Boards :
    \A i \in 1..Len(board.cells) :
      /\ difficulty = "easy" => board.cells[i].kind \in {"length", "start", "end"}
      /\ difficulty = "medium" => board.cells[i].kind \notin {"pos_length", "start_end"}
      /\ board.cells[i].kind \in
           {"length", "start", "end", "pos", "pos_start", "pos_end", "pos_length",
            "start_end", "length_start", "length_end"}

\* A medium result with a board for which the first loop of the selection
\* found fewer than 9 candidates, so that the second loop filled it up.
C17_Witness ==
  /\ TTSucceeded
  /\ difficulty = "medium"
  /\ \E b \in 1..Len(picked) : picked[b].firstPass < 9

\* The cap of the profile of the difficulty for a kind.
ProfileCap(kind) ==
  LET profile == DIFFICULTY_PROFILES[difficulty]
  IN  IF kind \in DOMAIN profile.perKindCap THEN profile.perKindCap[kind]
      ELSE profile.defaultKindCap

\* C18 as stated: in every board the cells of one kind are at most the cap
\* of the kind in the profile.
C18_WithinCap ==
  \A board \in Boards :
    \A kind \in SeqToSet(KindsOf(board)) : Count(KindsOf(board), kind) <= ProfileCap(kind)

\* C18, amended: the cells of a board are the 9 selected candidates, and among
\* the candidates the first loop of the selection picked, those of one kind
\* are at most the cap of the kind plus the boost of the attempt; the
\* candidates of the second loop are bound by no cap.
C18_FirstPassWithinCap ==
  \A b \in 1..Len(grids) :
    /\ \A kind \in SeqToSet(picked[b].selected) :
         /\ Count(Take(picked[b].selected, picked[b].firstPass), kind)
              <= ProfileCap(kind) + picked[b].boost
         /\ Count(KindsOf(grids[b]), kind) = Count(picked[b].selected, kind)
    /\ Len(grids[b].cells) = Len(picked[b].selected)

\* A returned board with more cells of one kind than the cap of the kind.
C18_Witness ==
  /\ TTSucceeded
  /\ \E b \in 1..Len(ticTac.grids) :
       \E kind \in SeqToSet(KindsOf(ticTac.grids[b])) :
         Count(KindsOf(ticTac.grids[b]), kind) > ProfileCap(kind)

\* C19: 9 different words of 4 to 7 letters that all have a tag, with at
\* least 2 first letters and at least 2 tags, get 4 boards at difficulty
\* medium.
C19_MediumSucceeds ==
  (/\ ttPc = "done"
   /\ difficulty = "medium"
   /\ Len(ttWordList) = 9
   /\ Cardinality(UniqueWords) = 9
   /\ \A w \in UniqueWords : Len(w) \in 4..7 /\ TagOf(w) # NoPos
   /\ Cardinality({w[1] : w \in UniqueWords}) >= 2
   /\ Cardinality({TagOf(w) : w \in UniqueWords}) >= 2)
    => (ticTac.success /\ Len(ticTac.grids) = 4)

\* ------------------------------------------------- the App: the claim

\* The objects that can be reached from an object, itself included.
RECURSIVE Reachable(_, _)
Reachable(h, id) ==
  {id} \cup UNION {Reachable(h, h[id].refs[n]) : n \in 1..Len(h[id].refs)}

\* C20: the result in the state of the App is a deep copy of the object
\* that was handed to the store, by Generate and by a change of tab: no object
\* can be reached from both.
C20_DeepCopy ==
  \A tab \in Tabs :
    (stored[tab] # 0 /\ handed[tab] # 0) =>
      Reachable(heap, stored[tab]) \cap Reachable(heap, handed[tab]) = {}

\* ------------------------------------------- DGA: the claims on the clues

\* C23: in a result with success: true, the matchingWords of every clue are,
\* in ascending order and without repetition, the words of wordBank that have
\* the anchorChar of the clue at the position the clue reveals; the word of
\* the clue is one of them; isAmbiguous is true exactly when they are 2 or
\* more; and the ids of the clues are the numbers 1..N.
C23_MatchingWords ==
  Succeeded =>
    /\ \A i \in 1..Len(result.clues) :
         LET clue == result.clues[i]
             mw   == clue.matchingWords
         IN  /\ SeqToSet(mw) = {w \in SeqToSet(result.wordBank) : ClueMatches(clue, w)}
             /\ \A k \in 1..(Len(mw) - 1) : StrLess(mw[k], mw[k + 1])
             /\ clue.word \in SeqToSet(mw)
             /\ clue.isAmbiguous <=> Len(mw) >= 2
    /\ {result.clues[i].id : i \in 1..Len(result.clues)} = 1..Len(result.clues)

\* A returned puzzle with a clue that reveals a letter counted from the end
\* and matches two words or more, and with a clue that matches its word only.
C23_Witness ==
  /\ Succeeded
  /\ \E i, j \in 1..Len(result.clues) :
       /\ result.clues[i].infiniteSide = "leading"
       /\ Len(result.clues[i].matchingWords) >= 2
       /\ Len(result.clues[j].matchingWords) = 1

\* The selections the attempt of this round can hand to validateSolvability:
\* complete, and with the ambiguous constraints the attempt asks for.
Simulated ==
  IF pc # "loop" \/ (randomize /\ attempt >= MaxAttempts) \/ (~randomize /\ required < 0)
  THEN {}
  ELSE LET desired == IF randomize THEN TARGET ELSE required
       IN  UNION {
             {s.arr : s \in {t \in AttemptSelections(forced.arr, randomize, uniqueWords,
                                                     constraintsByWord, bucketWordMembers,
                                                     forced.left) :
                               /\ Len(t.arr) = Len(uniqueWords)
                               /\ ambiguousCount(t.arr) >= Min(desired, Len(forced.arr))}} :
             forced \in {f \in computeForcedAmbiguousSet(desired, randomize,
                                                         ambiguousComponents, MaxSwaps) :
                           \A i \in 1..Len(f.arr) :
                             constraintsByWord[f.arr[i]].ambiguous # <<>>}}

\* The words of `words` that constraint c matches.
MatchesOf(c, words) == {k \in 1..Len(words) : matches(c, words[k])}

\* C28: in every round of the elimination simulation over a selection with
\* one constraint per word, a remaining constraint that matches exactly one
\* remaining word matches its own targetWord, the word resolved is the
\* targetWord of the constraint removed, and before and after the round the
\* remaining constraints are those of the remaining words.
C28_OwnWord ==
  \A sel \in Simulated :
    LET steps == SimulationSteps(sel, uniqueWords)
    IN  \A k \in 1..Len(steps) :
          LET st    == steps[k]
              cs    == st.constraints
              after == RemoveAt(cs, st.i)
          IN  /\ \A j \in 1..Len(cs) :
                   Cardinality(MatchesOf(cs[j], st.words)) = 1 =>
                     \A m \in MatchesOf(cs[j], st.words) : st.words[m] = cs[j].targetWord
              /\ st.solvedWord = st.c.targetWord
              /\ Len(cs) = Len(st.words)
              /\ {cs[j].targetWord : j \in 1..Len(cs)} = SeqToSet(st.words)
              /\ {after[j].targetWord : j \in 1..Len(after)}
                   = SeqToSet(st.words) \ {st.solvedWord}

\* A simulation that runs to the end over a selection whose first constraint
\* matches several words, so that a later constraint is resolved first.
C28_Witness ==
  \E sel \in Simulated :
    LET steps == SimulationSteps(sel, uniqueWords)
    IN  /\ Len(steps) = Len(uniqueWords)
        /\ steps[1].i > 1
        /\ \E k \in 2..Len(steps) : steps[k].c.overlapScore >= 2

\* The constraints of cs (by index) that match exactly one word of ws.
Deducible(sel, cs, ws) ==
  {i \in cs : Cardinality({w \in ws : matches(sel[i], w)}) = 1}

\* The states one deduction leads to, whichever deducible constraint is taken.
Resolve(sel, s) ==
  {[cs |-> s.cs \ {i}, words |-> {w \in s.words : ~matches(sel[i], w)}] :
     i \in Deducible(sel, s.cs, s.words)}

\* The states of the elimination over sel after at most n deductions.
RECURSIVE ResolveStates(_, _, _)
ResolveStates(sel, frontier, n) ==
  IF n = 0 \/ frontier = {} THEN frontier
  ELSE frontier \cup ResolveStates(sel, UNION {Resolve(sel, s) : s \in frontier}, n - 1)

\* The states in which the elimination over sel can stop.
Terminal(sel) ==
  {s \in ResolveStates(sel, {[cs |-> 1..Len(sel), words |-> SeqToSet(uniqueWords)]},
                       Len(sel)) :
     s.words = {} \/ Deducible(sel, s.cs, s.words) = {}}

Reverse(s) == [i \in 1..Len(s) |-> s[Len(s) + 1 - i]]

\* What a returned clue shows of its constraint.
ShownConstraint(clue) ==
  [type |-> ClueType(clue), char |-> clue.anchorChar, targetWord |-> clue.word]

\* C29: the verdict of validateSolvability over a selection is the verdict
\* of the elimination whichever deducible constraint is resolved first, and
\* the verdict over the constraints in reverse order and over the words in
\* reverse order; the shuffled clues of a returned puzzle, run against the
\* returned word bank, get the verdict true the selection got.
C29_OrderIndependent ==
  /\ \A sel \in Simulated :
       LET verdict == validateSolvability(sel, uniqueWords)
       IN  /\ \A s \in Terminal(sel) : (s.words = {}) <=> verdict
           /\ validateSolvability(Reverse(sel), uniqueWords) <=> verdict
           /\ validateSolvability(sel, Reverse(uniqueWords)) <=> verdict
  /\ Succeeded =>
       validateSolvability([i \in 1..Len(result.clues) |-> ShownConstraint(result.clues[i])],
                           result.wordBank)

\* An accepted selection whose first constraint cannot be resolved first and
\* that offers a choice between deductions, and a rejected selection, in the
\* same round.
C29_Witness ==
  /\ \E sel \in Simulated :
       /\ validateSolvability(sel, uniqueWords)
       /\ 1 \notin Deducible(sel, 1..Len(sel), SeqToSet(uniqueWords))
       /\ Cardinality(Deducible(sel, 1..Len(sel), SeqToSet(uniqueWords))) >= 2
  /\ \E sel \in Simulated : ~validateSolvability(sel, uniqueWords)

\* ------------------------------------ crossword: the claims on the layout

\* The cells a placed word covers.
CellsOf(w) ==
  {[r |-> RowOf(w.row, w.direction, i), c |-> ColOf(w.col, w.direction, i)] :
     i \in 0..(Len(w.word) - 1)}

\* C26: two placed words that share a cell have different directions, so no
\* two words of the same direction overlap and a cell that two words cover
\* is the crossing of one across word and one down word.
C26_CrossingsOnly ==
  \A p, q \in 1..Len(placedWords) :
    (p # q /\ CellsOf(placedWords[p]) \cap CellsOf(placedWords[q]) # {}) =>
      placedWords[p].direction # placedWords[q].direction

\* The start and direction of `current` laid perpendicular to placed word pw
\* with its letter k on letter j of pw (both 1-based).
CrossingAt(current, pw, j, k) ==
  LET dir == IF pw.direction = "across" THEN "down" ELSE "across"
      r   == RowOf(pw.row, pw.direction, j - 1)
      c   == ColOf(pw.col, pw.direction, j - 1)
  IN  [row       |-> IF dir = "down" THEN r - (k - 1) ELSE r,
       col       |-> IF dir = "across" THEN c - (k - 1) ELSE c,
       direction |-> dir]

\* The crossings <<p, j, k>> of `current` with the placed words that share
\* the letter and that canPlaceWord accepts on grid g.
ValidCrossings(current, placed, g, size) ==
  {t \in UNION {{<<p, j, k>> : j \in 1..Len(placed[p].word), k \in 1..Len(current)} :
                  p \in 1..Len(placed)} :
     /\ current[t[3]] = placed[t[1]].word[t[2]]
     /\ LET at == CrossingAt(current, placed[t[1]], t[2], t[3])
        IN  canPlaceWord(current, at.row, at.col, at.direction, g, size)}

\* Crossing a is met before crossing b: earlier placed word, then earlier
\* letter of it, then earlier letter of the candidate.
MetBefore(a, b) ==
  \/ a[1] < b[1]
  \/ a[1] = b[1] /\ a[2] < b[2]
  \/ a[1] = b[1] /\ a[2] = b[2] /\ a[3] < b[3]

\* C24: a round of the loop over the non-anchor words takes a word no longer
\* than the one before it; when some crossing with a placed word is valid the
\* word is placed at the valid crossing met first (placed words in placement
\* order, their letters first to last, the candidate's letters in increasing
\* order), perpendicular to the word it crosses; it is left unused only when
\* no crossing is valid.
C24_FirstFit ==
  [][(cwPc = "rest" /\ wordIndex' = wordIndex + 1) =>
       LET current == sortedInputs[wordIndex].word
           valid   == ValidCrossings(current, placedWords, grid, gridSize)
       IN  /\ wordIndex >= 3 => Len(current) <= Len(sortedInputs[wordIndex - 1].word)
           /\ IF valid = {}
              THEN /\ unusedWords' = Append(unusedWords, current)
                   /\ placedWords' = placedWords
                   /\ grid' = grid
              ELSE LET first == CHOOSE t \in valid :
                                  \A u \in valid : u = t \/ MetBefore(t, u)
                       at    == CrossingAt(current, placedWords[first[1]], first[2], first[3])
                   IN  /\ placedWords' = Append(placedWords,
                                                [word |-> current, row |-> at.row,
                                                 col |-> at.col, direction |-> at.direction,
                                                 number |-> 0])
                       /\ at.direction # placedWords[first[1]].direction
                       /\ unusedWords' = unusedWords]_vars

\* A round of the loop, after two placements, whose word has valid crossings
\* with two different placed words at different starts: the one met later is
\* the position the round leaves aside.
C24_Witness ==
  /\ cwPc = "rest"
  /\ Len(placedWords) >= 2
  /\ wordIndex <= Len(sortedInputs)
  /\ \E a, b \in ValidCrossings(sortedInputs[wordIndex].word, placedWords, grid, gridSize) :
       /\ MetBefore(a, b)
       /\ a[1] # b[1]
       /\ CrossingAt(sortedInputs[wordIndex].word, placedWords[a[1]], a[2], a[3])
            # CrossingAt(sortedInputs[wordIndex].word, placedWords[b[1]], b[2], b[3])

\* The word texts of a list of entries.
WordsOf(entries) == [i \in 1..Len(entries) |-> entries[i].word]

\* C27: while generate places words, the entries placed and the entries left
\* unused are as many as the entries handled so far, and the filled cells of
\* this.grid are the cells of the words placed in this call, also when the
\* instance has generated before; in a returned result placedWords and
\* unusedWords together have as many entries as the input, and every word
\* text occurs in them as often as in the input.
C27_Accounting ==
  /\ cwPc = "rest" => Len(placedWords) + Len(unusedWords) = wordIndex - 1
  /\ cwPc \in {"first", "rest"} =>
       \A r, c \in 0..(gridSize - 1) :
         grid[r][c] # NULL <=>
           \E p \in 1..Len(placedWords) : [r |-> r, c |-> c] \in CellsOf(placedWords[p])
  /\ cwPc = "done" =>
       /\ Len(generated.placedWords) + Len(generated.unusedWords) = Len(inputs)
       /\ \A i \in 1..Len(inputs) :
            Count(WordsOf(generated.placedWords), inputs[i].word)
              + Count(generated.unusedWords, inputs[i].word)
              = Count(WordsOf(inputs), inputs[i].word)

\* A second call on an instance whose first call filled cells, under way with
\* two words placed and one unused, on another anchor than the first call.
C27_Witness ==
  /\ cwPc = "rest"
  /\ generated.placedWords # <<>>
  /\ Len(placedWords) >= 2
  /\ Len(unusedWords) >= 1
  /\ placedWords[1].word # generated.placedWords[1].word

\* ------------------------------- Tic-Tac-Word: the claim on the assignment

\* The selections the attempt of this round hands to findDistinctAssignment.
Searched ==
  IF /\ ttPc = "grids"
     /\ gridId < GRID_COUNT
     /\ Len(Eligible(processed, DIFFICULTY_PROFILES[difficulty])) >= CELL_COUNT
     /\ gridAttempt < MAX_GRID_ATTEMPTS
  THEN {sel \in pickConstraintSet(Eligible(processed, DIFFICULTY_PROFILES[difficulty]),
                                  DIFFICULTY_PROFILES[difficulty],
                                  gridAttempt % MAX_SELECTION_ATTEMPTS, movesLeft) :
          sel.selection # NO_SELECTION}
  ELSE {}

\* The words of the pool.
PoolWords == {processed[i].word : i \in 1..Len(processed)}

\* The pool words candidate c matches.
Suitors(c) == SeqToSet(c.matchingWords) \cap PoolWords

\* Every group of candidates matches at least as many pool words as it has
\* members: the condition under which each candidate can get a word of its
\* own.
DistinctAssignmentExists(selection) ==
  \A group \in SUBSET (1..Len(selection)) :
    Cardinality(UNION {Suitors(selection[i]) : i \in group}) >= Cardinality(group)

\* C30: findDistinctAssignment returns null exactly when the candidates
\* cannot each get a pool word of their own; every assignment it returns,
\* whatever the order its shuffles give the options, has one entry per
\* candidate key, a word the candidate matches, and no word twice.
C30_CompleteSearch ==
  \A sel \in Searched :
    LET found == findDistinctAssignment(sel.selection, PoolWords, sel.left)
    IN  /\ found = {} <=> ~DistinctAssignmentExists(sel.selection)
        /\ \A a \in found :
             LET m == a.assignment
             IN  /\ Len(m) = Len(sel.selection)
                 /\ \A i \in 1..Len(sel.selection) :
                      /\ Cardinality({n \in 1..Len(m) : m[n].key = sel.selection[i].key}) = 1
                      /\ Assigned(m, sel.selection[i].key) \in Suitors(sel.selection[i])
                 /\ Cardinality({m[n].word : n \in 1..Len(m)}) = Len(m)

\* A round with a selection the search assigns although two of its candidates
\* compete for a word, and with a selection whose nine candidates cannot each
\* get a word of their own.
C30_Witness ==
  /\ \E sel \in Searched :
       /\ findDistinctAssignment(sel.selection, PoolWords, sel.left) # {}
       /\ \E i, j \in 1..Len(sel.selection) :
            /\ i # j
            /\ Suitors(sel.selection[i]) \cap Suitors(sel.selection[j]) # {}
            /\ Cardinality(Suitors(sel.selection[i])) >= 2
  /\ \E sel \in Searched : ~DistinctAssignmentExists(sel.selection)

\* ------------------------------------------- the claim on termination

\* The bounds of the loops: the attempts of the generator loop, the passes of
\* the fallback loop, the rounds of every elimination simulation (one word
\* less per round), the attempts and the boards of the board assembler, the
\* entries the assignment search goes down, the index of the crossword loop.
LoopsBounded ==
  /\ attempt <= MaxAttempts
  /\ (pc = "loop" /\ ~randomize) =>
       /\ required >= -1
       /\ TARGET - required <= QUOTA + 1
  /\ \A sel \in Simulated :
       LET steps == SimulationSteps(sel, uniqueWords)
       IN  /\ Len(steps) <= Len(uniqueWords)
           /\ \A k \in 1..Len(steps) : Len(steps[k].words) = Len(uniqueWords) - (k - 1)
  /\ gridAttempt <= MAX_GRID_ATTEMPTS
  /\ gridId <= GRID_COUNT
  /\ \A sel \in Searched : Len(sel.selection) = CELL_COUNT
  /\ cwPc = "rest" => wordIndex <= Len(sortedInputs) + 1

\* An attempt of the DGA with these arguments has an outcome.
AttemptHasOutcome(desired, rnd) ==
  \E forced \in computeForcedAmbiguousSet(desired, rnd, ambiguousComponents, MaxSwaps) :
    \E built \in attemptBuild(forced.arr, desired, rnd, uniqueWords, constraintsByWord,
                              bucketWordMembers, forced.left) :
      built.arr # NO_SELECTION => SuccessResults(built.arr, uniqueWords, built.left) # {}

\* A call under way has a next step: the cases of each position of the
\* three calls cover it, and the draws of the step have an outcome.
CallCanStep ==
  /\ pc = "start" => SubsetOutcomes(Dedup(Sanitized(wordList)), limit) # {}
  /\ (pc = "loop" /\ randomize /\ attempt < MaxAttempts) => AttemptHasOutcome(TARGET, TRUE)
  /\ (pc = "loop" /\ ~randomize /\ required >= 0) => AttemptHasOutcome(required, FALSE)
  /\ cwPc = "first" => sortedInputs # <<>>
  /\ (/\ ttPc = "grids"
      /\ gridId < GRID_COUNT
      /\ Len(Eligible(processed, DIFFICULTY_PROFILES[difficulty])) >= CELL_COUNT
      /\ gridAttempt < MAX_GRID_ATTEMPTS) =>
       AttemptOutcomes(processed, difficulty, gridAttempt, movesLeft) # {}
  /\ ttPc = "grids" => gridId <= GRID_COUNT

\* C22: every call of generate of the three engines returns; on the way a
\* call under way always has a next step and every loop stays within its
\* bound; a round of the crossword loop moves to the next word.
C22_Terminates ==
  /\ (pc = "start") ~> (pc = "done")
  /\ (cwPc = "start") ~> (cwPc = "done")
  /\ (ttPc = "start") ~> (ttPc = "done")
  /\ []CallCanStep
  /\ []LoopsBounded
  /\ [][(cwPc = "rest" /\ cwPc' = "rest") => wordIndex' = wordIndex + 1]_vars

\* A call that returned after it used up a loop: the DGA after the last pass
\* of its fallback loop, or the board assembler after its last attempt.
C22_Witness ==
  \/ pc = "done" /\ ~randomize /\ required < 0
  \/ ttPc = "done" /\ gridAttempt = MAX_GRID_ATTEMPTS

(***************************************************************************)
(* App: the claim on the stored results                                    *)
(***************************************************************************)

\* What a result looks like from its root: the type, the fields and the
\* shapes of the objects the fields refer to; null has a shape of its own.
\* Two results with one shape are structurally equal.
RECURSIVE Shape(_, _)
Shape(h, id) ==
  IF id = 0 THEN [type |-> "null"]
  ELSE [type   |-> h[id].type,
        fields |-> h[id].fields,
        kids   |-> [n \in 1..Len(h[id].refs) |-> Shape(h, h[id].refs[n])]]

\* The step is a Generate on the tab: the generator handed over an object
\* that did not exist before.
GenerateOn(tab) ==
  /\ activeTab = tab
  /\ activeTab' = tab
  /\ handed'[tab] > Len(heap)

\* The step is the one of the word list becoming empty.
AllCleared ==
  /\ stored' = [t \in Tabs |-> 0]
  /\ UNCHANGED <<heap, activeTab, handed>>

\* C25: the stored result of an engine keeps its structure through every
\* step that is not a Generate on the tab of that engine, tab switches,
\* show-solution toggles, mode changes and redraws included; a Generate on
\* the tab stores a result of the structure the generator handed over; and
\* the only other change is the one that sets the three results to null.
C25_NoDrift ==
  [][\A tab \in Tabs :
       \/ Shape(heap', stored'[tab]) = Shape(heap, stored[tab])
       \/ /\ GenerateOn(tab)
          /\ Shape(heap', stored'[tab]) = Shape(heap', handed'[tab])
       \/ AllCleared]_vars

\* The crossword result was stored again by a tab switch after a DGA
\* generation (the object handed to the clone is older than the DGA result,
\* so it is the stored one and not a new grid), the overlay, the mode and the
\* width have changed, and the stored copy still has the structure of the
\* object it was taken from.
C25_Witness ==
  /\ handed["crossword"] # 0
  /\ handed["crossword"] < stored["dga"]
  /\ stored["dga"] < stored["crossword"]
  /\ showSolution
  /\ mode = "deduction"
  /\ containerWidth = "narrow"
  /\ Shape(heap, stored["crossword"]) = Shape(heap, handed["crossword"])

(***************************************************************************)
(* the claim on determinism                                                *)
(***************************************************************************)

\* Math.random() is the only choice the three generators leave open: every
\* \E of their actions ranges over draws.  Inside one call, each result is an
\* operator applied to the arguments and the draws.  What a behaviour can
\* still show is (a) that nothing but the arguments and the draws reaches a
\* call from the call before it on the same instance, and (b) that a step
\* whose draws are fixed has one outcome.

\* What the fallback loop can select at the value of required it stands at:
\* the forced list and the selection (or NO_SELECTION) of the attempt.  The
\* fallback passes randomize = false, so that shuffle returns a copy and
\* pickRandom and chooseFrom return arr[0]: it draws nothing.
FallbackSelections ==
  UNION {{<<forced.arr, built.arr>> :
            built \in attemptBuild(forced.arr, required, FALSE, uniqueWords,
                                   constraintsByWord, bucketWordMembers, forced.left)} :
         forced \in computeForcedAmbiguousSet(required, FALSE, ambiguousComponents, MaxSwaps)}

\* What an attempt at a board can return under the draws that move nothing:
\* every Fisher-Yates draw j equals i, and the random part of the weights
\* keeps the candidates in their order.
UnmovedAttempts == AttemptOutcomes(processed, difficulty, gridAttempt, 0)

\* The fallback loop is about to run an attempt.
InFallback == pc = "loop" /\ ~randomize /\ required >= 0

\* generateGrid is about to run an attempt.
InGridAttempt ==
  /\ ttPc = "grids"
  /\ gridId < GRID_COUNT
  /\ gridAttempt < MAX_GRID_ATTEMPTS
  /\ Len(Eligible(processed, DIFFICULTY_PROFILES[difficulty])) >= CELL_COUNT

\* generate has returned for the second time or later on one instance, and
\* drew the same randIndex as in the call before.
SameCallAgain == cwPc = "done" /\ earlier # NoCall /\ drawn = earlier.drawn

\* C21: with the same input and the same draws a generator returns the same
\* result.  Crossword: a call of generate that follows another one on the
\* same instance, with the same inputs and the same randIndex, returns the
\* same grid, placements with their numbers, and unused words.  DGA: an
\* attempt of the fallback loop, which draws nothing, has one selection.
\* Tic-Tac-Word: an attempt at a board under the draws that move nothing
\* has one outcome, the same cells in the same order or no board.
C21_Deterministic ==
  /\ SameCallAgain => generated = earlier.generated
  /\ InFallback => Cardinality(FallbackSelections) = 1
  /\ InGridAttempt => Cardinality(UnmovedAttempts) = 1

\* A second call on the instance has returned with the anchor of the first
\* one, a crossing was placed, and the result is the one of the first call.
C21_Witness ==
  /\ SameCallAgain
  /\ drawn > 0
  /\ Len(generated.placedWords) >= 2
  /\ generated = earlier.generated

\* The draw matters: a second call with another anchor has returned another
\* result.
C21_OtherDraw ==
  /\ cwPc = "done"
  /\ earlier # NoCall
  /\ drawn # earlier.drawn
  /\ generated # earlier.generated

====
